---- MODULE Spec2Model ----
(***************************************************************************)
(* A model of the command-line parser of src/lib/command.ts: the token     *)
(* parser (parseOptions), the value resolver (handleOptionValue, the       *)
(* environment pass, the implied pass) and the dispatcher with its         *)
(* life-cycle hook pipeline (#parseCommand, #dispatchSubcommand,           *)
(* #chainOrCall, #chainOrCallHooks).                                       *)
(*                                                                         *)
(* Tokens are sequences of one-character strings, so that the tests the    *)
(* code makes on characters (arg[0] === "-", arg.slice(2), the "=" of      *)
(* --long=value) are computed and not looked up.                           *)
(***************************************************************************)
EXTENDS Integers, Sequences, FiniteSets, TLC

(***************************************************************************)
(* JavaScript values.  Every value is a tagged tuple, so that values of    *)
(* different types can be compared.                                        *)
(***************************************************************************)
Undefined == <<"undefined">>
Null == <<"null">>
VStr(s) == <<"str", s>>
VBool(b) == <<"bool", b>>
VList(l) == <<"list", l>>
IsList(v) == v[1] = "list"

\* val == null in JavaScript: true of null and of undefined
IsNullish(v) == v = Null \/ v = Undefined

(***************************************************************************)
(* Tokens of the modelled command lines.                                   *)
(***************************************************************************)
NoFlag == <<>>
DashDash == <<"-", "-">>
TokP == <<"-", "p">>
TokPort == <<"-", "-", "p", "o", "r", "t">>
TokV == <<"-", "v">>
TokVerbose == <<"-", "-", "v", "e", "r", "b", "o", "s", "e">>
TokU == <<"-", "u">>
TokX == <<"x">>
TokSub == <<"s", "u", "b">>
TokLeaf == <<"l", "e", "a", "f">>
TokHelpCmd == <<"h", "e", "l", "p">>
TokH == <<"-", "h">>
TokHelp == <<"-", "-", "h", "e", "l", "p">>
KeyPort == <<"p", "o", "r", "t">>
KeyVerbose == <<"v", "e", "r", "b", "o", "s", "e">>
TokY == <<"y">>
TokBuild == <<"b", "u", "i", "l", "d">>
TokJob == <<"j", "o", "b">>
TokN == <<"-", "n">>
TokNumbers == <<"-", "-", "n", "u", "m", "b", "e", "r", "s">>
TokM == <<"-", "m">>
TokMode == <<"-", "-", "m", "o", "d", "e">>
TokS == <<"-", "s">>
TokSilent == <<"-", "-", "s", "i", "l", "e", "n", "t">>
TokL == <<"-", "l">>
TokLevel == <<"-", "-", "l", "e", "v", "e", "l">>
TokLX == <<"-", "l", "x">>
TokQ == <<"-", "q">>
TokQuiet == <<"-", "-", "q", "u", "i", "e", "t">>
TokD == <<"-", "d">>
TokDebug == <<"-", "-", "d", "e", "b", "u", "g">>
KeyNumbers == <<"n", "u", "m", "b", "e", "r", "s">>
KeyMode == <<"m", "o", "d", "e">>
KeySilent == <<"s", "i", "l", "e", "n", "t">>
KeyLevel == <<"l", "e", "v", "e", "l">>
KeyQuiet == <<"q", "u", "i", "e", "t">>
KeyDebug == <<"d", "e", "b", "u", "g">>
TokColor == <<"-", "-", "c", "o", "l", "o", "r">>
TokNoColor == <<"-", "-", "n", "o", "-", "c", "o", "l", "o", "r">>
TokFade == <<"-", "-", "f", "a", "d", "e">>
TokNoFade == <<"-", "-", "n", "o", "-", "f", "a", "d", "e">>
TokTint == <<"t", "i", "n", "t">>
TokWorker == <<"w", "o", "r", "k", "e", "r">>
TokVee == <<"-", "V">>
TokVersion == <<"-", "-", "v", "e", "r", "s", "i", "o", "n">>
TokUnit == <<"u", "n", "i", "t">>
TokA == <<"-", "a">>
TokAll == <<"-", "-", "a", "l", "l">>
TokB == <<"-", "b">>
TokBrief == <<"-", "-", "b", "r", "i", "e", "f">>
TokR == <<"-", "r">>
TokReq == <<"-", "-", "r", "e", "q">>
TokO == <<"-", "o">>
TokOut == <<"-", "-", "o", "u", "t">>
TokT == <<"-", "t">>
TokTag == <<"-", "-", "t", "a", "g">>
TokG == <<"-", "g">>
TokGo == <<"-", "-", "g", "o">>
TokNoWrap == <<"-", "-", "n", "o", "-", "w", "r", "a", "p">>
KeyAll == <<"a", "l", "l">>
KeyBrief == <<"b", "r", "i", "e", "f">>
KeyReq == <<"r", "e", "q">>
KeyOut == <<"o", "u", "t">>
KeyTag == <<"t", "a", "g">>
KeyGo == <<"g", "o">>
KeyWrap == <<"w", "r", "a", "p">>
KeyColor == <<"c", "o", "l", "o", "r">>
KeyFade == <<"f", "a", "d", "e">>
KeyWarm == <<"w", "a", "r", "m">>
KeyPlain == <<"p", "l", "a", "i", "n">>
KeySoft == <<"s", "o", "f", "t">>
KeyHard == <<"h", "a", "r", "d">>

\* the strings used as option values by the fixture
Str80 == <<"8", "0">>
Str9000 == <<"9", "0", "0", "0">>
Str1 == <<"1">>
StrCfg == <<"c", "f", "g">>
StrFast == <<"f", "a", "s", "t">>
StrAll == <<"a", "l", "l">>
StrOff == <<"o", "f", "f">>

(***************************************************************************)
(* The command trees of the fixture:                                       *)
(*   prog  (-p, --port <n>  default "80"  env PORT;                        *)
(*          -v, --verbose   env VERBOSE  implies { port: "1" };            *)
(*          -n, --numbers <n...>)                                          *)
(*     sub [file]                                                          *)
(*       leaf [files...]                                                   *)
(*     build  (-m, --mode <m>  mandatory  env MODE;                        *)
(*             -s, --silent  conflicts with level;                         *)
(*             -l, --level <n>  default "1")                               *)
(*       job [first] [rest...] (rest defaults to ["all"])                  *)
(*            (-q, --quiet;  -d, --debug  conflicts with quiet)            *)
(*   solo, twin  two programs constructed independently of each other with *)
(*         the same declarations: the options of prog, and the arguments   *)
(*         [first] [rest...] of job                                        *)
(*   paint  (--color  implies { warm: true };                              *)
(*           --no-color  implies { plain: true };                          *)
(*           --fade  implies { soft: true };                               *)
(*           --no-fade  preset "off"  implies { hard: true })              *)
(*     tint  (-V, --version  registered by version())                      *)
(*     worker  an executable subcommand                                    *)
(*   pack  (-a, --all  env ALL;  -b, --brief  with a parser;               *)
(*          -r, --req <v>;  -o, --out [v];  -t, --tag [v]  preset "off";   *)
(*          -g, --go  preset "fast", with a parser;  --no-wrap)            *)
(*     unit  the default command of pack                                   *)
(* Every command but paint and pack has an action handler or, worker, an   *)
(* executable handler.                                                     *)
(***************************************************************************)
Commands == {"prog", "sub", "leaf", "build", "job", "solo", "twin", "paint",
             "tint", "worker", "pack", "unit"}
NoCommand == "none"

\* Command.parent
parent(c) == CASE c = "prog" -> NoCommand
               [] c = "sub" -> "prog"
               [] c = "leaf" -> "sub"
               [] c = "build" -> "prog"
               [] c = "job" -> "build"
               [] c = "solo" -> NoCommand
               [] c = "twin" -> NoCommand
               [] c = "paint" -> NoCommand
               [] c = "tint" -> "paint"
               [] c = "worker" -> "paint"
               [] c = "pack" -> NoCommand
               [] c = "unit" -> "pack"

\* Command.commands, in registration order
commands(c) == CASE c = "prog" -> <<"sub", "build">>
                 [] c = "sub" -> <<"leaf">>
                 [] c = "leaf" -> <<>>
                 [] c = "build" -> <<"job">>
                 [] c = "job" -> <<>>
                 [] c = "solo" -> <<>>
                 [] c = "twin" -> <<>>
                 [] c = "paint" -> <<"tint", "worker">>
                 [] c = "tint" -> <<>>
                 [] c = "worker" -> <<>>
                 [] c = "pack" -> <<"unit">>
                 [] c = "unit" -> <<>>

\* Command._name
name(c) == CASE c = "prog" -> <<"p", "r", "o", "g">>
             [] c = "sub" -> TokSub
             [] c = "leaf" -> TokLeaf
             [] c = "build" -> TokBuild
             [] c = "job" -> TokJob
             [] c = "solo" -> <<"p", "r", "o", "g">>
             [] c = "twin" -> <<"p", "r", "o", "g">>
             [] c = "paint" -> <<"p", "a", "i", "n", "t">>
             [] c = "tint" -> TokTint
             [] c = "worker" -> TokWorker
             [] c = "pack" -> <<"p", "a", "c", "k">>
             [] c = "unit" -> TokUnit

\* Command._aliases
aliases(c) == {}

\* Command._actionHandler !== null
hasActionHandler(c) == c \notin {"paint", "worker", "pack"}

\* a fixture without an executable subcommand
executableHandler_never(c) == FALSE

\* Command._executableHandler
executableHandler(c) == c = "worker"

\* Command._defaultCommandName
defaultCommandName(c) == IF c = "pack" THEN "unit" ELSE NoCommand

\* a variant in which the [rest...] of twin declares no default
registeredArguments_twinWithoutDefault(c) ==
  CASE c = "sub" -> <<[required |-> FALSE, variadic |-> FALSE, defaultValue |-> <<"undefined">>]>>
    [] c = "leaf" -> <<[required |-> FALSE, variadic |-> TRUE, defaultValue |-> <<"undefined">>]>>
    [] c = "twin" -> <<[required |-> FALSE, variadic |-> FALSE, defaultValue |-> <<"undefined">>],
                       [required |-> FALSE, variadic |-> TRUE, defaultValue |-> <<"undefined">>]>>
    [] c \in {"job", "solo"} ->
                    <<[required |-> FALSE, variadic |-> FALSE, defaultValue |-> <<"undefined">>],
                      [required |-> FALSE, variadic |-> TRUE,
                       defaultValue |-> <<"list", << <<"str", StrAll>> >> >>]>>
    [] OTHER -> <<>>

\* Command.registeredArguments: sub takes [file], leaf takes [files...], job,
\* solo and twin take [first] [rest...] with a default for rest
registeredArguments(c) ==
  CASE c = "sub" -> <<[required |-> FALSE, variadic |-> FALSE, defaultValue |-> <<"undefined">>]>>
    [] c = "leaf" -> <<[required |-> FALSE, variadic |-> TRUE, defaultValue |-> <<"undefined">>]>>
    [] c \in {"job", "solo", "twin"} -> <<[required |-> FALSE, variadic |-> FALSE, defaultValue |-> <<"undefined">>],
                      [required |-> FALSE, variadic |-> TRUE,
                       defaultValue |-> <<"list", << <<"str", StrAll>> >> >>]>>
    [] OTHER -> <<>>

(***************************************************************************)
(* Options.  An option is a record of the fields of class Option.          *)
(***************************************************************************)
NoImplied == <<>>

OptPort ==
  [short |-> TokP, long |-> TokPort, required |-> TRUE, optional |-> FALSE,
   variadic |-> FALSE, negate |-> FALSE, mandatory |-> FALSE,
   defaultValue |-> VStr(Str80), presetArg |-> Undefined, envVar |-> "PORT",
   hasParseArg |-> FALSE, conflictsWith |-> {}, implied |-> NoImplied]

OptVerbose ==
  [short |-> TokV, long |-> TokVerbose, required |-> FALSE, optional |-> FALSE,
   variadic |-> FALSE, negate |-> FALSE, mandatory |-> FALSE,
   defaultValue |-> Undefined, presetArg |-> Undefined, envVar |-> "VERBOSE",
   hasParseArg |-> FALSE, conflictsWith |-> {},
   implied |-> << <<KeyPort, VStr(Str1)>> >>]

OptNumbers ==
  [short |-> TokN, long |-> TokNumbers, required |-> TRUE, optional |-> FALSE,
   variadic |-> TRUE, negate |-> FALSE, mandatory |-> FALSE,
   defaultValue |-> Undefined, presetArg |-> Undefined, envVar |-> "",
   hasParseArg |-> FALSE, conflictsWith |-> {}, implied |-> NoImplied]

OptMode ==
  [short |-> TokM, long |-> TokMode, required |-> TRUE, optional |-> FALSE,
   variadic |-> FALSE, negate |-> FALSE, mandatory |-> TRUE,
   defaultValue |-> Undefined, presetArg |-> Undefined, envVar |-> "MODE",
   hasParseArg |-> FALSE, conflictsWith |-> {}, implied |-> NoImplied]

OptSilent ==
  [short |-> TokS, long |-> TokSilent, required |-> FALSE, optional |-> FALSE,
   variadic |-> FALSE, negate |-> FALSE, mandatory |-> FALSE,
   defaultValue |-> Undefined, presetArg |-> Undefined, envVar |-> "",
   hasParseArg |-> FALSE, conflictsWith |-> {KeyLevel}, implied |-> NoImplied]

OptLevel ==
  [short |-> TokL, long |-> TokLevel, required |-> TRUE, optional |-> FALSE,
   variadic |-> FALSE, negate |-> FALSE, mandatory |-> FALSE,
   defaultValue |-> VStr(Str1), presetArg |-> Undefined, envVar |-> "",
   hasParseArg |-> FALSE, conflictsWith |-> {}, implied |-> NoImplied]

OptQuiet ==
  [short |-> TokQ, long |-> TokQuiet, required |-> FALSE, optional |-> FALSE,
   variadic |-> FALSE, negate |-> FALSE, mandatory |-> FALSE,
   defaultValue |-> Undefined, presetArg |-> Undefined, envVar |-> "",
   hasParseArg |-> FALSE, conflictsWith |-> {}, implied |-> NoImplied]

OptDebug ==
  [short |-> TokD, long |-> TokDebug, required |-> FALSE, optional |-> FALSE,
   variadic |-> FALSE, negate |-> FALSE, mandatory |-> FALSE,
   defaultValue |-> Undefined, presetArg |-> Undefined, envVar |-> "",
   hasParseArg |-> FALSE, conflictsWith |-> {KeyQuiet}, implied |-> NoImplied]

OptColor ==
  [short |-> NoFlag, long |-> TokColor, required |-> FALSE, optional |-> FALSE,
   variadic |-> FALSE, negate |-> FALSE, mandatory |-> FALSE,
   defaultValue |-> Undefined, presetArg |-> Undefined, envVar |-> "",
   hasParseArg |-> FALSE, conflictsWith |-> {},
   implied |-> << <<KeyWarm, VBool(TRUE)>> >>]

OptNoColor ==
  [short |-> NoFlag, long |-> TokNoColor, required |-> FALSE, optional |-> FALSE,
   variadic |-> FALSE, negate |-> TRUE, mandatory |-> FALSE,
   defaultValue |-> Undefined, presetArg |-> Undefined, envVar |-> "",
   hasParseArg |-> FALSE, conflictsWith |-> {},
   implied |-> << <<KeyPlain, VBool(TRUE)>> >>]

OptFade ==
  [short |-> NoFlag, long |-> TokFade, required |-> FALSE, optional |-> FALSE,
   variadic |-> FALSE, negate |-> FALSE, mandatory |-> FALSE,
   defaultValue |-> Undefined, presetArg |-> Undefined, envVar |-> "",
   hasParseArg |-> FALSE, conflictsWith |-> {},
   implied |-> << <<KeySoft, VBool(TRUE)>> >>]

OptNoFade ==
  [short |-> NoFlag, long |-> TokNoFade, required |-> FALSE, optional |-> FALSE,
   variadic |-> FALSE, negate |-> TRUE, mandatory |-> FALSE,
   defaultValue |-> Undefined, presetArg |-> VStr(StrOff), envVar |-> "",
   hasParseArg |-> FALSE, conflictsWith |-> {},
   implied |-> << <<KeyHard, VBool(TRUE)>> >>]

\* the help option created lazily by _getHelpOption: -h, --help
OptHelp ==
  [short |-> TokH, long |-> TokHelp, required |-> FALSE, optional |-> FALSE,
   variadic |-> FALSE, negate |-> FALSE, mandatory |-> FALSE,
   defaultValue |-> Undefined, presetArg |-> Undefined, envVar |-> "",
   hasParseArg |-> FALSE, conflictsWith |-> {}, implied |-> NoImplied]

\* the option version() creates: -V, --version
OptVersion ==
  [short |-> TokVee, long |-> TokVersion, required |-> FALSE, optional |-> FALSE,
   variadic |-> FALSE, negate |-> FALSE, mandatory |-> FALSE,
   defaultValue |-> Undefined, presetArg |-> Undefined, envVar |-> "",
   hasParseArg |-> FALSE, conflictsWith |-> {}, implied |-> NoImplied]

\* the options of pack
OptAll ==
  [short |-> TokA, long |-> TokAll, required |-> FALSE, optional |-> FALSE,
   variadic |-> FALSE, negate |-> FALSE, mandatory |-> FALSE,
   defaultValue |-> Undefined, presetArg |-> Undefined, envVar |-> "ALL",
   hasParseArg |-> FALSE, conflictsWith |-> {}, implied |-> NoImplied]

OptBrief ==
  [short |-> TokB, long |-> TokBrief, required |-> FALSE, optional |-> FALSE,
   variadic |-> FALSE, negate |-> FALSE, mandatory |-> FALSE,
   defaultValue |-> Undefined, presetArg |-> Undefined, envVar |-> "",
   hasParseArg |-> TRUE, conflictsWith |-> {}, implied |-> NoImplied]

OptReq ==
  [short |-> TokR, long |-> TokReq, required |-> TRUE, optional |-> FALSE,
   variadic |-> FALSE, negate |-> FALSE, mandatory |-> FALSE,
   defaultValue |-> Undefined, presetArg |-> Undefined, envVar |-> "",
   hasParseArg |-> FALSE, conflictsWith |-> {}, implied |-> NoImplied]

OptOut ==
  [short |-> TokO, long |-> TokOut, required |-> FALSE, optional |-> TRUE,
   variadic |-> FALSE, negate |-> FALSE, mandatory |-> FALSE,
   defaultValue |-> Undefined, presetArg |-> Undefined, envVar |-> "",
   hasParseArg |-> FALSE, conflictsWith |-> {}, implied |-> NoImplied]

OptTag ==
  [short |-> TokT, long |-> TokTag, required |-> FALSE, optional |-> TRUE,
   variadic |-> FALSE, negate |-> FALSE, mandatory |-> FALSE,
   defaultValue |-> Undefined, presetArg |-> VStr(StrOff), envVar |-> "",
   hasParseArg |-> FALSE, conflictsWith |-> {}, implied |-> NoImplied]

OptGo ==
  [short |-> TokG, long |-> TokGo, required |-> FALSE, optional |-> FALSE,
   variadic |-> FALSE, negate |-> FALSE, mandatory |-> FALSE,
   defaultValue |-> Undefined, presetArg |-> VStr(StrFast), envVar |-> "",
   hasParseArg |-> TRUE, conflictsWith |-> {}, implied |-> NoImplied]

OptNoWrap ==
  [short |-> NoFlag, long |-> TokNoWrap, required |-> FALSE, optional |-> FALSE,
   variadic |-> FALSE, negate |-> TRUE, mandatory |-> FALSE,
   defaultValue |-> Undefined, presetArg |-> Undefined, envVar |-> "",
   hasParseArg |-> FALSE, conflictsWith |-> {}, implied |-> NoImplied]

\* Command.options, in registration order
options(c) ==
  CASE c \in {"prog", "solo", "twin"} -> <<OptPort, OptVerbose, OptNumbers>>
    [] c = "build" -> <<OptMode, OptSilent, OptLevel>>
    [] c = "job" -> <<OptQuiet, OptDebug>>
    [] c = "paint" -> <<OptColor, OptNoColor, OptFade, OptNoFade>>
    [] c = "tint" -> <<OptVersion>>
    [] c = "pack" -> <<OptAll, OptBrief, OptReq, OptOut, OptTag, OptGo, OptNoWrap>>
    [] OTHER -> <<>>

\* Command.#versionOptionName: the attribute of the option of version(), which
\* is registered by #registerOption alone and has the listener that prints
\* the version and calls #exit(0, "commander.version", str)
versionOptionName(c) ==
  IF c = "tint" THEN <<"v", "e", "r", "s", "i", "o", "n">> ELSE <<>>

(***************************************************************************)
(* String helpers over tokens.                                             *)
(***************************************************************************)
StartsWith(s, prefix) ==
  Len(s) >= Len(prefix) /\ SubSeq(s, 1, Len(prefix)) = prefix

\* s.slice(n): the characters of s from (0-based) position n on
Slice(s, n) == SubSeq(s, n + 1, Len(s))

\* s.indexOf(ch) + 1, or 0 when ch does not occur
IndexOf(s, ch) ==
  IF \E i \in 1..Len(s) : s[i] = ch
    THEN CHOOSE i \in 1..Len(s) : s[i] = ch /\ \A j \in 1..(i - 1) : s[j] # ch
    ELSE 0

LowerCase == <<"a", "b", "c", "d", "e", "f", "g", "h", "i", "j", "k", "l", "m",
               "n", "o", "p", "q", "r", "s", "t", "u", "v", "w", "x", "y", "z">>
UpperCase == <<"A", "B", "C", "D", "E", "F", "G", "H", "I", "J", "K", "L", "M",
               "N", "O", "P", "Q", "R", "S", "T", "U", "V", "W", "X", "Y", "Z">>

toUpperCase(ch) ==
  IF \E i \in 1..Len(LowerCase) : LowerCase[i] = ch
    THEN UpperCase[CHOOSE i \in 1..Len(LowerCase) : LowerCase[i] = ch]
    ELSE ch

\* camelcase(str): each "-" is dropped and the character after it upper-cased
RECURSIVE camelcase(_)
camelcase(str) ==
  IF str = <<>> THEN <<>>
  ELSE IF Head(str) = "-" /\ Len(str) > 1
    THEN <<toUpperCase(str[2])>> \o camelcase(Slice(str, 2))
    ELSE <<Head(str)>> \o camelcase(Tail(str))

(***************************************************************************)
(* Methods of class Option.                                                *)
(***************************************************************************)
\* Option.name()
optionName(o) == IF o.long # NoFlag THEN Slice(o.long, 2) ELSE Slice(o.short, 1)

\* Option.attributeName()
attributeName(o) ==
  LET n == optionName(o)
  IN camelcase(IF StartsWith(n, <<"n", "o", "-">>) THEN Slice(n, 3) ELSE n)

\* Option.is(arg)
is(o, arg) == arg # NoFlag /\ (o.short = arg \/ o.long = arg)

\* Option.isBoolean()
isBoolean(o) == ~o.required /\ ~o.optional /\ ~o.negate

\* Option._concatValue(value, previous)
concatValue(o, value, previous) ==
  IF previous = o.defaultValue \/ ~IsList(previous)
    THEN VList(<<value>>)
    ELSE VList(Append(previous[2], value))

(***************************************************************************)
(* Look-ups of class Command.                                              *)
(***************************************************************************)
\* _findOption(arg): the index in options of the first option matching arg, or 0
findOption(c, arg) ==
  LET os == options(c)
  IN IF \E i \in 1..Len(os) : is(os[i], arg)
       THEN CHOOSE i \in 1..Len(os) :
              is(os[i], arg) /\ \A j \in 1..(i - 1) : ~is(os[j], arg)
       ELSE 0

\* #findCommand(name): the first child known by that name or alias, or NoCommand
findCommand(c, n) ==
  LET cs == commands(c)
      known(i) == name(cs[i]) = n \/ n \in aliases(cs[i])
  IN IF n # <<>> /\ \E i \in 1..Len(cs) : known(i)
       THEN cs[CHOOSE i \in 1..Len(cs) : known(i) /\ \A j \in 1..(i - 1) : ~known(j)]
       ELSE NoCommand

\* _getHelpCommand() is not null: the implicit help command exists when the
\* command has subcommands, no action handler and no subcommand called help
hasHelpCommand(c) ==
  Len(commands(c)) > 0 /\ ~hasActionHandler(c) /\ findCommand(c, TokHelpCmd) = NoCommand

\* #getCommandAndAncestors(): the command first, the root last
RECURSIVE getCommandAndAncestors(_)
getCommandAndAncestors(c) ==
  IF c = NoCommand THEN <<>> ELSE <<c>> \o getCommandAndAncestors(parent(c))

Reverse(s) == [i \in 1..Len(s) |-> s[Len(s) + 1 - i]]

(***************************************************************************)
(* The value store of one command: option values and their sources, both   *)
(* JavaScript objects, modelled as functions whose domain is the set of    *)
(* keys present.                                                           *)
(***************************************************************************)
Put(f, k, v) == [x \in (DOMAIN f) \cup {k} |-> IF x = k THEN v ELSE f[x]]

EmptyStore == [values |-> <<>>, sources |-> <<>>]

\* getOptionValue(key)
getOptionValue(store, key) ==
  IF key \in DOMAIN store.values THEN store.values[key] ELSE Undefined

\* getOptionValueSource(key); "undefined" stands for the value undefined
getOptionValueSource(store, key) ==
  IF key \in DOMAIN store.sources THEN store.sources[key] ELSE "undefined"

\* setOptionValueWithSource(key, value, source)
setOptionValueWithSource(store, key, value, source) ==
  [values |-> Put(store.values, key, value),
   sources |-> Put(store.sources, key, source)]

\* addOption's part that stores the default value of one option, given the
\* options registered before it
storeDefault(c, store, i) ==
  LET o == options(c)[i]
      positiveLongFlag == <<"-", "-">> \o Slice(o.long, 5)
      positiveKnown == \E j \in 1..(i - 1) : is(options(c)[j], positiveLongFlag)
  IN IF o.negate
       THEN IF ~positiveKnown
              THEN setOptionValueWithSource(store, attributeName(o),
                     IF o.defaultValue = Undefined THEN VBool(TRUE) ELSE o.defaultValue,
                     "default")
              ELSE store
       ELSE IF o.defaultValue # Undefined
              THEN setOptionValueWithSource(store, attributeName(o), o.defaultValue, "default")
              ELSE store

\* the store of a command after its options were registered with addOption
RECURSIVE registeredStore(_, _)
registeredStore(c, n) ==
  IF n = 0 THEN EmptyStore ELSE storeDefault(c, registeredStore(c, n - 1), n)

\* handleOptionValue(val, invalidValueMessage, valueSource) of option o
\* reaches line 732, val = option.#concatValue(val, oldValue): no option of
\* the fixture declares a parseArg, so a variadic option with a value that is
\* not null takes that branch
callsConcatValue(o, val) ==
  LET val1 == IF IsNullish(val) /\ o.presetArg # Undefined THEN o.presetArg ELSE val
  IN val1 # Null /\ ~o.hasParseArg /\ o.variadic

\* a handler whose call of line 732 succeeds
handleOptionValueThrows_never(o, val) == FALSE

\* handleOptionValue throws a TypeError: #concatValue is a private name that
\* class Option does not declare (its method is _concatValue, line 2699), so
\* the call of line 732 cannot be made
handleOptionValueThrows(o, val) == callsConcatValue(o, val)

\* option.parseArg(value, previous) of the options declared with a parser:
\* (value) => [value]
parseArg(value, previous) == VList(<<value>>)

\* #callParseArg(target, value, previous, invalidArgumentMessage); the parser
\* of the fixture does not throw
callParseArg(value, previous) == parseArg(value, previous)

\* a handler that calls the parser for no value but undefined or null
handleOptionValue_parsesDefined(store, o, val, valueSource) ==
  LET key == attributeName(o)
      val1 == IF IsNullish(val) /\ o.presetArg # Undefined THEN o.presetArg ELSE val
      val2 == IF ~IsNullish(val1) /\ o.hasParseArg
                THEN callParseArg(val1, getOptionValue(store, key))
                ELSE val1
      val3 == IF IsNullish(val2)
                THEN IF o.negate THEN VBool(FALSE)
                     ELSE IF isBoolean(o) \/ o.optional THEN VBool(TRUE)
                     ELSE VStr(<<>>)
                ELSE val2
  IN setOptionValueWithSource(store, key, val3, valueSource)

\* a handler that stores the value the way setOptionValue does, without source
handleOptionValue_noSource(store, o, val, valueSource) ==
  LET key == attributeName(o)
      val1 == IF IsNullish(val) /\ o.presetArg # Undefined THEN o.presetArg ELSE val
      val2 == IF val1 # Null /\ o.hasParseArg
                THEN callParseArg(val1, getOptionValue(store, key))
                ELSE val1
      val3 == IF IsNullish(val2)
                THEN IF o.negate THEN VBool(FALSE)
                     ELSE IF isBoolean(o) \/ o.optional THEN VBool(TRUE)
                     ELSE VStr(<<>>)
                ELSE val2
  IN setOptionValueWithSource(store, key, val3, "undefined")

\* handleOptionValue(val, invalidValueMessage, valueSource) of option o when
\* it does not throw; the branch of a variadic option (lines 731-732) is what
\* the call would store if it named Option._concatValue, and is not taken
\* while handleOptionValueThrows holds for it
handleOptionValue(store, o, val, valueSource) ==
  LET key == attributeName(o)
      val1 == IF IsNullish(val) /\ o.presetArg # Undefined THEN o.presetArg ELSE val
      val2 == IF val1 # Null /\ o.hasParseArg
                THEN callParseArg(val1, getOptionValue(store, key))
              ELSE IF val1 # Null /\ o.variadic
                THEN concatValue(o, val1, getOptionValue(store, key))
                ELSE val1
      val3 == IF IsNullish(val2)
                THEN IF o.negate THEN VBool(FALSE)
                     ELSE IF isBoolean(o) \/ o.optional THEN VBool(TRUE)
                     ELSE VStr(<<>>)
                ELSE val2
  IN setOptionValueWithSource(store, key, val3, valueSource)

(***************************************************************************)
(* The environment pass.                                                   *)
(***************************************************************************)
\* a priority check that goes by the source alone
envMayOverwrite_bySource(store, key) ==
  getOptionValueSource(store, key) \in {"undefined", "default", "config", "env"}

\* the priority check of _parseOptionsEnv for one option key
envMayOverwrite(store, key) ==
  getOptionValue(store, key) = Undefined
    \/ getOptionValueSource(store, key) \in {"default", "config", "env"}

\* the body of the forEach of _parseOptionsEnv for one option
parseOptionEnv(store, o, environment) ==
  IF o.envVar # "" /\ o.envVar \in DOMAIN environment
       /\ envMayOverwrite(store, attributeName(o))
    THEN IF o.required \/ o.optional
           THEN handleOptionValue(store, o, VStr(environment[o.envVar]), "env")
           ELSE handleOptionValue(store, o, Undefined, "env")
    ELSE store

\* _parseOptionsEnv() over the first n options
RECURSIVE parseOptionsEnv(_, _, _, _)
parseOptionsEnv(c, store, environment, n) ==
  IF n = 0 THEN store
  ELSE parseOptionEnv(parseOptionsEnv(c, store, environment, n - 1), options(c)[n], environment)

(***************************************************************************)
(* The implied pass.                                                       *)
(***************************************************************************)
\* DualOptions: the option an attribute maps to in negativeOptions (the last
\* negated option with that attribute name), as an index into options, or 0
negativeOption(c, key) ==
  LET os == options(c)
      S == {i \in 1..Len(os) : os[i].negate /\ attributeName(os[i]) = key}
  IN IF S = {} THEN 0 ELSE CHOOSE i \in S : \A j \in S : j <= i

\* DualOptions.dualOptions.has(key)
isDual(c, key) ==
  negativeOption(c, key) # 0
    /\ \E i \in 1..Len(options(c)) :
         ~options(c)[i].negate /\ attributeName(options(c)[i]) = key

\* a helper that takes every value to come from the option asked about
valueFromOption_always(c, value, o) == TRUE

\* DualOptions.valueFromOption(value, option)
valueFromOption(c, value, o) ==
  LET key == attributeName(o)
      preset == options(c)[negativeOption(c, key)].presetArg
      negativeValue == IF preset # Undefined THEN preset ELSE VBool(FALSE)
  IN IF ~isDual(c, key) THEN TRUE ELSE o.negate = (negativeValue = value)

\* a test that counts a config value as not custom
hasCustomOptionValue_configNotCustom(store, key) ==
  getOptionValue(store, key) # Undefined
    /\ getOptionValueSource(store, key) \notin {"default", "config", "implied"}

\* a test that counts a value from the environment as not custom
hasCustomOptionValue_envNotCustom(store, key) ==
  getOptionValue(store, key) # Undefined
    /\ getOptionValueSource(store, key) \notin {"default", "env", "implied"}

\* hasCustomOptionValue(optionKey) of _parseOptionsImplied
hasCustomOptionValue(store, key) ==
  getOptionValue(store, key) # Undefined
    /\ getOptionValueSource(store, key) \notin {"default", "implied"}

\* a filter that does not ask where the value of the option came from
impliesNow_always(c, store, o) == o.implied # NoImplied

\* the options whose implied values are applied: the filter of
\* _parseOptionsImplied, evaluated on the store as it is before the pass
impliesNow(c, store, o) ==
  o.implied # NoImplied
    /\ hasCustomOptionValue(store, attributeName(o))
    /\ valueFromOption(c, getOptionValue(store, attributeName(o)), o)

\* the inner forEach: the implied keys of one option, the first n of them
RECURSIVE applyImplied(_, _, _)
applyImplied(store, implied, n) ==
  IF n = 0 THEN store
  ELSE LET s == applyImplied(store, implied, n - 1)
           key == implied[n][1]
       IN IF ~hasCustomOptionValue(store, key)
            THEN setOptionValueWithSource(s, key, implied[n][2], "implied")
            ELSE s

\* _parseOptionsImplied() over the first n options; before is the store the
\* filter saw
RECURSIVE parseOptionsImplied(_, _, _, _)
parseOptionsImplied(c, before, store, n) ==
  IF n = 0 THEN store
  ELSE LET s == parseOptionsImplied(c, before, store, n - 1)
           o == options(c)[n]
       IN IF impliesNow(c, before, o)
            THEN applyImplied(s, o.implied, Len(o.implied))
            ELSE s

(***************************************************************************)
(* The token parser: one iteration of the while loop of parseOptions.      *)
(* A frame holds the locals of parseOptions: args (the tokens left),       *)
(* operands, unknown, dest ("operands" or "unknown") and                   *)
(* activeVariadicOption (an index into options, 0 for null).               *)
(***************************************************************************)
NewFrame(argv) ==
  [args |-> argv, operands |-> <<>>, unknown |-> <<>>, dest |-> "operands",
   activeVariadicOption |-> 0]

\* maybeOption(arg)
maybeOption(arg) == Len(arg) > 1 /\ arg[1] = "-"

\* /^--[^=]+=/.test(arg)
isLongWithValue(arg) == StartsWith(arg, DashDash) /\ IndexOf(arg, "=") >= 4

\* dest.push(...tokens)
pushDest(f, tokens) ==
  IF f.dest = "operands"
    THEN [f EXCEPT !.operands = @ \o tokens]
    ELSE [f EXCEPT !.unknown = @ \o tokens]

\* a literal "--" that is always pushed to dest
stepLiteral_keepsLiteral(f, arg, rest) ==
  [pushDest(pushDest(f, <<arg>>), rest) EXCEPT !.args = <<>>]

\* a literal "--" after which the rest always goes to operands
stepLiteral_restToOperands(f, arg, rest) ==
  LET f1 == IF f.dest = "unknown" THEN pushDest(f, <<arg>>) ELSE f
  IN [f1 EXCEPT !.operands = @ \o rest, !.args = <<>>]

\* the literal "--": lines 1695-1699
stepLiteral(f, arg, rest) ==
  LET f1 == IF f.dest = "unknown" THEN pushDest(f, <<arg>>) ELSE f
  IN [pushDest(f1, rest) EXCEPT !.args = <<>>]

\* a tail that goes on parsing after the first positional or unknown option
stepOperand_noPassThrough(c, f, arg, rest, passThroughOptions, enablePositionalOptions) ==
  LET f1 == IF maybeOption(arg) THEN [f EXCEPT !.dest = "unknown"] ELSE f
  IN [frame |-> [pushDest(f1, <<arg>>) EXCEPT !.args = rest], stop |-> FALSE]

\* a tail that chooses the list by the shape of each token
stepOperand_destPerToken(c, f, arg, rest, passThroughOptions, enablePositionalOptions) ==
  LET f1 == [f EXCEPT !.dest = IF maybeOption(arg) THEN "unknown" ELSE "operands"]
  IN [frame |-> [pushDest(f1, <<arg>>) EXCEPT !.args = rest], stop |-> FALSE]

\* a tail that hands the whole rest to operands at a subcommand, at the help
\* command and with a default command
stepOperand_restToOperands(c, f, arg, rest, passThroughOptions, enablePositionalOptions) ==
  LET f1 == IF maybeOption(arg) THEN [f EXCEPT !.dest = "unknown"] ELSE f
  IN IF (enablePositionalOptions \/ passThroughOptions)
          /\ f1.operands = <<>> /\ f1.unknown = <<>>
          /\ (findCommand(c, arg) # NoCommand
                \/ (hasHelpCommand(c) /\ arg = TokHelpCmd)
                \/ defaultCommandName(c) # NoCommand)
       THEN [frame |-> [f1 EXCEPT !.operands = <<arg>> \o rest, !.args = <<>>],
             stop |-> TRUE]
     ELSE IF passThroughOptions
       THEN [frame |-> [pushDest(f1, <<arg>> \o rest) EXCEPT !.args = <<>>],
             stop |-> TRUE]
     ELSE [frame |-> [pushDest(f1, <<arg>>) EXCEPT !.args = rest], stop |-> FALSE]

\* the tail of the loop body, from "Not a recognised option by this command"
\* on: lines 1764-1800.  Returns the frame and whether the loop breaks.
stepOperand(c, f, arg, rest, passThroughOptions, enablePositionalOptions) ==
  LET f1 == IF maybeOption(arg) THEN [f EXCEPT !.dest = "unknown"] ELSE f
  IN IF (enablePositionalOptions \/ passThroughOptions)
          /\ f1.operands = <<>> /\ f1.unknown = <<>>
          /\ findCommand(c, arg) # NoCommand
       THEN [frame |-> [f1 EXCEPT !.operands = <<arg>>, !.unknown = rest, !.args = <<>>],
             stop |-> TRUE]
     ELSE IF (enablePositionalOptions \/ passThroughOptions)
          /\ f1.operands = <<>> /\ f1.unknown = <<>>
          /\ hasHelpCommand(c) /\ arg = TokHelpCmd
       THEN [frame |-> [f1 EXCEPT !.operands = <<arg>> \o rest, !.args = <<>>],
             stop |-> TRUE]
     ELSE IF (enablePositionalOptions \/ passThroughOptions)
          /\ f1.operands = <<>> /\ f1.unknown = <<>>
          /\ defaultCommandName(c) # NoCommand
       THEN [frame |-> [f1 EXCEPT !.unknown = <<arg>> \o rest, !.args = <<>>],
             stop |-> TRUE]
     ELSE IF passThroughOptions
       THEN [frame |-> [pushDest(f1, <<arg>> \o rest) EXCEPT !.args = <<>>],
             stop |-> TRUE]
     ELSE [frame |-> [pushDest(f1, <<arg>>) EXCEPT !.args = rest], stop |-> FALSE]

\* an exact match that lets an optional argument be any token
stepExact_anyOptional(o, rest) ==
  IF o.required
    THEN IF rest = <<>>
           THEN [missing |-> TRUE, args |-> rest, val |-> Undefined]
           ELSE [missing |-> FALSE, args |-> Tail(rest), val |-> VStr(Head(rest))]
  ELSE IF o.optional
    THEN IF rest # <<>>
           THEN [missing |-> FALSE, args |-> Tail(rest), val |-> VStr(Head(rest))]
           ELSE [missing |-> FALSE, args |-> rest, val |-> Null]
  ELSE [missing |-> FALSE, args |-> rest, val |-> Undefined]

\* the exact match of option o with the tokens rest after it: lines
\* 1710-1725.  Returns the tokens left, the value of the option event and
\* whether the argument of the option is missing.
stepExact(o, rest) ==
  IF o.required
    THEN IF rest = <<>>
           THEN [missing |-> TRUE, args |-> rest, val |-> Undefined]
           ELSE [missing |-> FALSE, args |-> Tail(rest), val |-> VStr(Head(rest))]
  ELSE IF o.optional
    THEN IF rest # <<>> /\ ~maybeOption(Head(rest))
           THEN [missing |-> FALSE, args |-> Tail(rest), val |-> VStr(Head(rest))]
           ELSE [missing |-> FALSE, args |-> rest, val |-> Null]
  ELSE [missing |-> FALSE, args |-> rest, val |-> Undefined]

\* a variant in which every option that takes a value stays pending
activeAfter_anyValue(o, i) == IF o.required \/ o.optional THEN i ELSE 0

\* activeVariadicOption after the exact match of option o, the i-th option:
\* line 1726
activeAfter(o, i) == IF o.variadic THEN i ELSE 0

\* a cluster whose first flag never takes the rest as its value
stepCluster_alwaysRequeue(o, arg, rest, combineFlagAndOptionalValue) ==
  [args |-> <<(<<"-">> \o Slice(arg, 2))>> \o rest, val |-> Undefined]

\* a cluster whose remainder is put back without its dash
stepCluster_bareRemainder(o, arg, rest, combineFlagAndOptionalValue) ==
  IF o.required \/ (o.optional /\ combineFlagAndOptionalValue)
    THEN [args |-> rest, val |-> VStr(Slice(arg, 2))]
    ELSE [args |-> <<Slice(arg, 2)>> \o rest, val |-> Undefined]

\* the token arg is a cluster -Xrest whose -X is option o: lines 1734-1746.
\* Returns the tokens left and the value of the option event.
stepCluster(o, arg, rest, combineFlagAndOptionalValue) ==
  IF o.required \/ (o.optional /\ combineFlagAndOptionalValue)
    THEN [args |-> rest, val |-> VStr(Slice(arg, 2))]
    ELSE [args |-> <<(<<"-">> \o Slice(arg, 2))>> \o rest, val |-> Undefined]

\* One iteration of the loop for command c with frame f and value store st.
\* Returns the frame, the store, whether the loop ends here (break), and the
\* error code of the error raised ("" for none).
parseOptionsStep(c, f, st, passThroughOptions, enablePositionalOptions, combineFlagAndOptionalValue) ==
  LET arg == Head(f.args)
      rest == Tail(f.args)
      os == options(c)
      cleared == [f EXCEPT !.activeVariadicOption = 0]
      exact == IF maybeOption(arg) THEN findOption(c, arg) ELSE 0
      combo == IF Len(arg) > 2 /\ arg[1] = "-" /\ arg[2] # "-"
                 THEN findOption(c, <<"-", arg[2]>>) ELSE 0
      eq == IndexOf(arg, "=")
      long == IF isLongWithValue(arg) THEN findOption(c, SubSeq(arg, 1, eq - 1)) ELSE 0
      ok(fr, s) == [frame |-> fr, store |-> s, stop |-> FALSE, error |-> ""]
      handled(fr, o, val) ==
        IF attributeName(o) = versionOptionName(c)
          THEN [frame |-> fr, store |-> st, stop |-> TRUE, error |-> "commander.version"]
        ELSE IF handleOptionValueThrows(o, val)
          THEN [frame |-> fr, store |-> st, stop |-> TRUE, error |-> "TypeError"]
          ELSE ok(fr, handleOptionValue(st, o, val, "cli"))
  IN IF arg = DashDash
       THEN [frame |-> stepLiteral(f, arg, rest), store |-> st, stop |-> TRUE, error |-> ""]
     ELSE IF f.activeVariadicOption # 0 /\ ~maybeOption(arg)
       THEN handled([f EXCEPT !.args = rest], os[f.activeVariadicOption], VStr(arg))
     ELSE IF exact # 0
       THEN LET o == os[exact]
                r == stepExact(o, rest)
            IN IF r.missing
                 THEN [frame |-> [cleared EXCEPT !.args = rest], store |-> st,
                       stop |-> TRUE, error |-> "commander.optionMissingArgument"]
                 ELSE handled([cleared EXCEPT !.args = r.args,
                                 !.activeVariadicOption = activeAfter(o, exact)], o, r.val)
     ELSE IF combo # 0
       THEN LET o == os[combo]
                r == stepCluster(o, arg, rest, combineFlagAndOptionalValue)
            IN handled([cleared EXCEPT !.args = r.args], o, r.val)
     ELSE IF long # 0 /\ (os[long].required \/ os[long].optional)
       THEN handled([cleared EXCEPT !.args = rest], os[long], VStr(Slice(arg, eq)))
     ELSE LET r == stepOperand(c, cleared, arg, rest, passThroughOptions,
                               enablePositionalOptions)
          IN [frame |-> r.frame, store |-> st, stop |-> r.stop, error |-> ""]

(***************************************************************************)
(* Leaf processing: the checks of #parseCommand before the action, and     *)
(* #processArguments.                                                      *)
(***************************************************************************)
\* #outputHelpIfRequested(args): a token of args is the help option
helpRequested(tokens) == \E i \in 1..Len(tokens) : is(OptHelp, tokens[i])

\* a variant that looks at the options of the command alone
missingMandatoryOption_ownOnly(c, stores) ==
  \E i \in 1..Len(options(c)) :
    options(c)[i].mandatory
      /\ getOptionValue(stores[c], attributeName(options(c)[i])) = Undefined

\* #checkForMissingMandatoryOptions() finds a mandatory option without value
missingMandatoryOption(c, stores) ==
  LET chain == getCommandAndAncestors(c)
  IN \E k \in 1..Len(chain) : \E i \in 1..Len(options(chain[k])) :
       options(chain[k])[i].mandatory
         /\ getOptionValue(stores[chain[k]], attributeName(options(chain[k])[i])) = Undefined

\* a variant that counts the values whose source is default as well
conflictingLocalOptions_countsDefault(c, st) ==
  LET os == options(c)
      defined == {i \in 1..Len(os) : getOptionValue(st, attributeName(os[i])) # Undefined}
  IN \E i \in defined : \E j \in defined : attributeName(os[j]) \in os[i].conflictsWith

\* #checkForConflictingLocalOptions() of one command finds a conflict
conflictingLocalOptions(c, st) ==
  LET os == options(c)
      definedNonDefault ==
        {i \in 1..Len(os) :
           getOptionValue(st, attributeName(os[i])) # Undefined
             /\ getOptionValueSource(st, attributeName(os[i])) # "default"}
  IN \E i \in definedNonDefault : \E j \in definedNonDefault :
       attributeName(os[j]) \in os[i].conflictsWith

\* #checkForConflictingOptions()
conflictingOptions(c, stores) ==
  LET chain == getCommandAndAncestors(c)
  IN \E k \in 1..Len(chain) : conflictingLocalOptions(chain[k], stores[chain[k]])

\* a variant that raises the error for excess arguments whatever the setting
checkNumberOfArguments_alwaysChecked(c, args, allowExcessArguments) ==
  LET ra == registeredArguments(c)
  IN IF \E i \in 1..Len(ra) : ra[i].required /\ i > Len(args)
       THEN "commander.missingArgument"
     ELSE IF Len(ra) > 0 /\ ra[Len(ra)].variadic THEN ""
     ELSE IF Len(args) > Len(ra) THEN "commander.excessArguments"
     ELSE ""

\* #checkNumberOfArguments(): the error code raised, "" for none
checkNumberOfArguments(c, args, allowExcessArguments) ==
  LET ra == registeredArguments(c)
  IN IF \E i \in 1..Len(ra) : ra[i].required /\ i > Len(args)
       THEN "commander.missingArgument"
     ELSE IF Len(ra) > 0 /\ ra[Len(ra)].variadic THEN ""
     ELSE IF Len(args) > Len(ra) /\ ~allowExcessArguments
       THEN "commander.excessArguments"
     ELSE ""

\* a variant whose variadic argument collects all the args, from the first
processArguments_fromFirst(c, args) ==
  LET ra == registeredArguments(c)
      strs(ts) == [i \in 1..Len(ts) |-> VStr(ts[i])]
  IN [i \in 1..Len(ra) |->
        IF ra[i].variadic
          THEN IF i <= Len(args) THEN VList(strs(args))
               ELSE IF ra[i].defaultValue = Undefined THEN VList(<<>>)
               ELSE ra[i].defaultValue
          ELSE IF i <= Len(args) THEN VStr(args[i]) ELSE ra[i].defaultValue]

\* #processArguments(): the value of this.processedArgs (no parseArg declared)
processArguments(c, args) ==
  LET ra == registeredArguments(c)
      strs(ts) == [i \in 1..Len(ts) |-> VStr(ts[i])]
  IN [i \in 1..Len(ra) |->
        IF ra[i].variadic
          THEN IF i <= Len(args) THEN VList(strs(SubSeq(args, i, Len(args))))
               ELSE IF ra[i].defaultValue = Undefined THEN VList(<<>>)
               ELSE ra[i].defaultValue
          ELSE IF i <= Len(args) THEN VStr(args[i]) ELSE ra[i].defaultValue]

\* a variant that validates the mandatory options and the conflicts before
\* it looks for the help flag
leafError_helpLast(c, stores, parsedUnknown, args, allowUnknownOption, allowExcessArguments) ==
  IF missingMandatoryOption(c, stores) THEN "commander.missingMandatoryOptionValue"
  ELSE IF conflictingOptions(c, stores) THEN "commander.conflictingOption"
  ELSE IF helpRequested(parsedUnknown) THEN "commander.helpDisplayed"
  ELSE IF parsedUnknown # <<>> /\ ~allowUnknownOption THEN "commander.unknownOption"
  ELSE checkNumberOfArguments(c, args, allowExcessArguments)

\* the error that ends leaf processing of a command with an action handler
\* before its hooks are chained, "" for none: lines 1535-1549
leafError(c, stores, parsedUnknown, args, allowUnknownOption, allowExcessArguments) ==
  IF helpRequested(parsedUnknown) THEN "commander.helpDisplayed"
  ELSE IF missingMandatoryOption(c, stores) THEN "commander.missingMandatoryOptionValue"
  ELSE IF conflictingOptions(c, stores) THEN "commander.conflictingOption"
  ELSE IF parsedUnknown # <<>> /\ ~allowUnknownOption THEN "commander.unknownOption"
  ELSE checkNumberOfArguments(c, args, allowExcessArguments)

\* the exit code #exit is called with for an error code
exitCodeOf(code) ==
  IF code \in {"commander.helpDisplayed", "commander.version"} THEN 0 ELSE 1

(***************************************************************************)
(* State.                                                                  *)
(***************************************************************************)
VARIABLES
  env,             \* process.env: variable name -> string
  settings,        \* per command: the behavioural flags
  lifeCycleHooks,  \* per command and event: Null, or the list of listeners
  store,           \* per command: option values and their sources
  rawArgs,         \* the argv given to parse
  cmdArgs,         \* per command: this.args
  processedArgs,   \* per command: this.processedArgs
  pc,              \* where the synchronous code stands
  cur,             \* the command whose #parseCommand is running
  operands,        \* #parseCommand's operands
  unknown,         \* #parseCommand's unknown
  frame,           \* the locals of parseOptions
  todo,            \* the calls of #chainOrCall the running function still has to make
  promiseChain,    \* its local promiseChain: "undefined" or "promise"
  chained,         \* the callbacks passed to then and not yet run, in order
  running,         \* the callbacks whose completion handle is pending
  awaited,         \* the callback the promise of the chain was last settled by
  inThen,          \* the synchronous code runs inside a then callback
  log,             \* the calls of #processArguments, and starts and ends of callbacks
  actionCalls,     \* the calls of action handlers, with their argument
  result,          \* what the call of #parseCommand by parse came to
  rejected,        \* the promise parse got was rejected
  handleReturned,  \* some callback returned a completion handle
  exit,            \* the arguments of process exit, <<>> before
  execArgv,        \* process.execArgv
  spawnArgs,       \* the arguments the child process was spawned with, <<>> before
  draft,           \* a command a client is declaring: see NewDraft
  saved            \* what a client copied from a command when its first parse ended, <<>> before

vars == <<env, settings, lifeCycleHooks, store, rawArgs, cmdArgs, processedArgs,
          pc, cur, operands, unknown, frame, todo, promiseChain, chained,
          running, awaited, inThen, log, actionCalls, result, rejected,
          handleReturned, exit, execArgv, spawnArgs, draft, saved>>

configVars == <<env, settings, execArgv, spawnArgs, draft, saved>>
parseVars == <<rawArgs, cmdArgs, processedArgs, cur, operands, unknown, frame>>
chainVars == <<todo, promiseChain, chained, running, awaited, inThen, log,
               actionCalls, result, rejected, handleReturned>>

\* every variable but draft
fixtureVars == <<env, settings, execArgv, spawnArgs, saved, lifeCycleHooks, store, parseVars,
                 pc, chainVars, exit>>

\* bounds of the model
MaxArgv == 3
MaxHooks == 2

Events == {"preSubcommand", "preAction", "postAction"}

\* the fields of a new Command
DefaultSettings ==
  [passThroughOptions |-> FALSE, enablePositionalOptions |-> FALSE,
   combineFlagAndOptionalValue |-> TRUE, allowUnknownOption |-> FALSE,
   allowExcessArguments |-> TRUE, exitCallback |-> "none"]

\* a step of the pipeline: a hook, an action, the legacy emit, or the dispatch
\* of a subcommand; and the two collecting calls that make hook steps
Step(kind, event, cmd, id, target) ==
  [kind |-> kind, event |-> event, cmd |-> cmd, id |-> id, target |-> target]
NoStep == Step("none", "", NoCommand, 0, NoCommand)

\* a command under declaration, as its constructor leaves it
NewDraft ==
  [registeredArguments |-> <<>>, threw |-> FALSE, calls |-> 0,
   last |-> [op |-> "", index |-> 0, flag |-> FALSE],
   name |-> "p", aliases |-> <<>>, enablePositionalOptions |-> FALSE,
   commands |-> <<>>,
   loose |-> [made |-> FALSE, name |-> "", aliases |-> <<>>, passThroughOptions |-> FALSE],
   options |-> <<>>, optionValues |-> EmptyStore]

\* the objects of the fixture after construction
InitObjects ==
  /\ spawnArgs = <<>>
  /\ saved = <<>>
  /\ draft = NewDraft
  /\ lifeCycleHooks = [c \in Commands |-> [e \in Events |-> Null]]
  /\ store = [c \in Commands |-> registeredStore(c, Len(options(c)))]
  /\ rawArgs = <<>>
  /\ cmdArgs = [c \in Commands |-> <<>>]
  /\ processedArgs = [c \in Commands |-> <<>>]
  /\ pc = "setup"
  /\ cur = "prog"
  /\ operands = <<>>
  /\ unknown = <<>>
  /\ frame = NewFrame(<<>>)
  /\ todo = <<>>
  /\ promiseChain = "undefined"
  /\ chained = <<>>
  /\ running = {}
  /\ awaited = NoStep
  /\ inThen = FALSE
  /\ log = <<>>
  /\ actionCalls = <<>>
  /\ result = "pending"
  /\ rejected = FALSE
  /\ handleReturned = FALSE
  /\ exit = <<>>

\* the state after the program of the fixture was constructed
InitProgram ==
  /\ execArgv = <<>>
  /\ InitObjects

(***************************************************************************)
(* Calls made by the client before parse.                                  *)
(***************************************************************************)
\* hook(event, listener); the listener is named by its place in the list
pushListener(hooks) ==
  IF hooks # Null
    THEN VList(Append(hooks[2], Len(hooks[2]) + 1))
    ELSE VList(<<1>>)

hookCount(hooks) == IF hooks = Null THEN 0 ELSE Len(hooks[2])

Hook(c, event) ==
  /\ pc = "setup"
  /\ hookCount(lifeCycleHooks[c][event]) < MaxHooks
  /\ lifeCycleHooks' = [lifeCycleHooks EXCEPT ![c][event] = pushListener(@)]
  /\ UNCHANGED <<configVars, store, parseVars, pc, chainVars, exit>>

\* setOptionValueWithSource(key, value, source) called on the program;
\* setOptionValue(key, value) is the call with source undefined
SetOptionValueWithSource(key, value, source) ==
  /\ pc = "setup"
  /\ store' = [store EXCEPT !["prog"] = setOptionValueWithSource(@, key, value, source)]
  /\ UNCHANGED <<configVars, lifeCycleHooks, parseVars, pc, chainVars, exit>>

\* setOptionValueWithSource(key, value, source) called on command c
SetOptionValueWithSourceOn(c, key, value, source) ==
  /\ pc = "setup"
  /\ store' = [store EXCEPT ![c] = setOptionValueWithSource(@, key, value, source)]
  /\ UNCHANGED <<configVars, lifeCycleHooks, parseVars, pc, chainVars, exit>>

\* a check that lets every command pass
brokenPassThrough_never(hasParent, passThrough, parentPositional) == FALSE

\* #checkForBrokenPassThrough() throws
brokenPassThrough(hasParent, passThrough, parentPositional) ==
  hasParent /\ passThrough /\ ~parentPositional

\* allowUnknownOption(allowUnknown)
AllowUnknownOption(c, allowUnknown) ==
  /\ pc = "setup"
  /\ settings' = [settings EXCEPT ![c].allowUnknownOption = allowUnknown]
  /\ UNCHANGED <<env, execArgv, spawnArgs, draft, saved, lifeCycleHooks, store, parseVars, pc,
                 chainVars, exit>>

\* combineFlagAndOptionalValue(combine)
CombineFlagAndOptionalValue(c, combine) ==
  /\ pc = "setup"
  /\ settings' = [settings EXCEPT ![c].combineFlagAndOptionalValue = combine]
  /\ UNCHANGED <<env, execArgv, spawnArgs, draft, saved, lifeCycleHooks, store, parseVars, pc,
                 chainVars, exit>>

\* allowExcessArguments(allowExcess)
AllowExcessArguments(c, allowExcess) ==
  /\ pc = "setup"
  /\ settings' = [settings EXCEPT ![c].allowExcessArguments = allowExcess]
  /\ UNCHANGED <<env, execArgv, spawnArgs, draft, saved, lifeCycleHooks, store, parseVars, pc,
                 chainVars, exit>>

\* enablePositionalOptions(positional)
EnablePositionalOptions(c, positional) ==
  /\ pc = "setup"
  /\ settings' = [settings EXCEPT ![c].enablePositionalOptions = positional]
  /\ UNCHANGED <<env, execArgv, spawnArgs, draft, saved, lifeCycleHooks, store, parseVars, pc,
                 chainVars, exit>>

\* passThroughOptions(passThrough): the flag is assigned, then checked
PassThroughOptions(c, passThrough) ==
  /\ pc = "setup"
  /\ settings' = [settings EXCEPT ![c].passThroughOptions = passThrough]
  /\ UNCHANGED <<env, execArgv, spawnArgs, draft, saved, lifeCycleHooks, store, parseVars, pc,
                 chainVars, exit>>

\* exitOverride(fn): "default" for the callback installed when fn is absent,
\* "throws" and "returns" for a function of the client that throws the error
\* it is given or returns
ExitOverride(c, fn) ==
  /\ pc = "setup"
  /\ settings' = [settings EXCEPT ![c].exitCallback = fn]
  /\ UNCHANGED <<env, execArgv, spawnArgs, draft, saved, lifeCycleHooks, store, parseVars, pc,
                 chainVars, exit>>

\* parse(argv, { from: "user" }): #parseCommand([], argv) of the program begins
Parse(argv) ==
  /\ pc = "setup"
  /\ rawArgs' = argv
  /\ cur' = "prog"
  /\ operands' = <<>>
  /\ unknown' = argv
  /\ frame' = NewFrame(argv)
  /\ pc' = "parseOptions"
  /\ UNCHANGED <<configVars, lifeCycleHooks, store, cmdArgs, processedArgs,
                 chainVars, exit>>

\* parse(argv, { from: "user" }) called on the root command c in a process
\* of its own: #parseCommand([], argv) of c begins
ParseRoot(c, argv) ==
  /\ rawArgs' = argv
  /\ cur' = c
  /\ operands' = <<>>
  /\ unknown' = argv
  /\ frame' = NewFrame(argv)
  /\ pc' = "parseOptions"
  /\ todo' = <<>>
  /\ promiseChain' = "undefined"
  /\ inThen' = FALSE
  /\ result' = "pending"
  /\ rejected' = FALSE
  /\ exit' = <<>>
  /\ UNCHANGED <<configVars, lifeCycleHooks, store, cmdArgs, processedArgs, chained,
                 running, awaited, log, actionCalls, handleReturned>>

(***************************************************************************)
(* #parseCommand up to the setting of this.args: lines 1501-1506.          *)
(***************************************************************************)
\* an error leaves the running function: parse throws it, or the promise of
\* the then callback it was thrown in is rejected
Throw ==
  /\ IF inThen
       THEN rejected' = TRUE /\ UNCHANGED result
       ELSE result' = "threw" /\ UNCHANGED rejected
  /\ todo' = <<>>
  /\ inThen' = FALSE
  /\ pc' = "idle"

\* an override that lets every error through to the caller
exitCallbackThrows_all(callback, code) == callback \in {"default", "throws"}

\* the exit callback throws the CommanderError it is called with: the default
\* override of exitOverride() does for every code but the one of the close
\* of an executable subcommand, and a function of the client may or may not
exitCallbackThrows(callback, code) ==
  callback = "throws"
    \/ (callback = "default" /\ code # "commander.executeSubCommandAsync")

\* the CommanderError a callback was called with and threw, as a log entry
Thrown(c, exitCode, code) == <<"throw", Step("error", code, c, exitCode, NoCommand)>>

\* #exit(exitCode, code, message) of command c: the exit callback, if there
\* is one, is called with the CommanderError; process.exit(exitCode) follows
\* when there is no callback or the callback returned
ExitAt(c, exitCode, code) ==
  IF exitCallbackThrows(settings[c].exitCallback, code)
    THEN /\ Throw
         /\ log' = Append(log, Thrown(c, exitCode, code))
         /\ UNCHANGED exit
    ELSE /\ exit' = <<exitCode, code>>
         /\ pc' = "exited"
         /\ UNCHANGED <<todo, inThen, result, rejected, log>>

\* this.error(message, { code }), the help flag and the version flag: #exit
\* of the command being parsed
Exit(code) == ExitAt(cur, exitCodeOf(code), code)

\* one turn of the while loop of parseOptions, or its end
ParseOptionsStep ==
  /\ pc = "parseOptions"
  /\ IF frame.args = <<>>
       THEN /\ pc' = "env"
            /\ UNCHANGED <<frame, store, exit, todo, inThen, result, rejected, log>>
       ELSE LET r == parseOptionsStep(cur, frame, store[cur],
                       settings[cur].passThroughOptions,
                       settings[cur].enablePositionalOptions,
                       settings[cur].combineFlagAndOptionalValue)
            IN /\ frame' = r.frame
               /\ store' = [store EXCEPT ![cur] = r.store]
               /\ IF r.error = "TypeError"
                    THEN Throw /\ UNCHANGED <<exit, log>>
                  ELSE IF r.error # ""
                    THEN Exit(r.error)
                  ELSE /\ pc' = IF r.stop THEN "env" ELSE "parseOptions"
                       /\ UNCHANGED <<exit, todo, inThen, result, rejected, log>>
  /\ UNCHANGED <<configVars, lifeCycleHooks, rawArgs, cmdArgs, processedArgs, cur,
                 operands, unknown, promiseChain, chained, running, awaited,
                 actionCalls, handleReturned>>

\* this._parseOptionsEnv()
ParseOptionsEnv ==
  /\ pc = "env"
  /\ store' = [store EXCEPT ![cur] = parseOptionsEnv(cur, @, env, Len(options(cur)))]
  /\ pc' = "implied"
  /\ UNCHANGED <<configVars, lifeCycleHooks, parseVars, chainVars, exit>>

\* this._parseOptionsImplied()
ParseOptionsImplied ==
  /\ pc = "implied"
  /\ store' = [store EXCEPT ![cur] =
                 parseOptionsImplied(cur, @, @, Len(options(cur)))]
  /\ pc' = "args"
  /\ UNCHANGED <<configVars, lifeCycleHooks, parseVars, chainVars, exit>>

\* operands = operands.concat(parsed.operands); unknown = parsed.unknown;
\* this.args = operands.concat(unknown)
SetArgs ==
  /\ pc = "args"
  /\ operands' = operands \o frame.operands
  /\ unknown' = frame.unknown
  /\ cmdArgs' = [cmdArgs EXCEPT ![cur] = operands' \o unknown']
  /\ pc' = "dispatch"
  /\ UNCHANGED <<configVars, lifeCycleHooks, store, rawArgs, processedArgs, cur,
                 frame, chainVars, exit>>

(***************************************************************************)
(* The dispatcher: the rest of #parseCommand, #dispatchSubcommand and the  *)
(* promise chain.  Every command of the fixture has an action handler and  *)
(* no default command, so of the branches of #parseCommand the dispatch of *)
(* a subcommand and the branch of the action handler are the ones taken.   *)
(***************************************************************************)
\* the steps that call the listeners of one command, in the order of its list
hookSteps(c, event, hooks, target) ==
  [i \in 1..Len(hooks[2]) |-> Step("hook", event, c, hooks[2][i], target)]

\* the first loop of #chainOrCallHooks over the commands chain[k..]; a list
\* that is null is not iterable, and undefined is what the filter looks for
RECURSIVE collectHooks(_, _, _, _, _)
collectHooks(chain, k, event, hooksOf, target) ==
  IF k > Len(chain) THEN <<>>
  ELSE hookSteps(chain[k], event, hooksOf[chain[k]][event], target)
         \o collectHooks(chain, k + 1, event, hooksOf, target)

\* a collection that starts from the action command, not from the root
chainOrCallHooks_leafFirst(c, event, hooksOf) ==
  LET chain == getCommandAndAncestors(c)
      threw == \E k \in 1..Len(chain) : hooksOf[chain[k]][event] = Null
      hooks == IF threw THEN <<>> ELSE collectHooks(chain, 1, event, hooksOf, c)
  IN [threw |-> threw,
      steps |-> IF event = "postAction" THEN Reverse(hooks) ELSE hooks]

\* a collection that reverses the commands, not the whole list, for postAction
chainOrCallHooks_commandsReversed(c, event, hooksOf) ==
  LET chain == IF event = "postAction" THEN getCommandAndAncestors(c)
               ELSE Reverse(getCommandAndAncestors(c))
      threw == \E k \in 1..Len(chain) : hooksOf[chain[k]][event] = Null
  IN [threw |-> threw,
      steps |-> IF threw THEN <<>> ELSE collectHooks(chain, 1, event, hooksOf, c)]

\* #chainOrCallHooks(promise, event) of command c: whether the collecting
\* loop throws a TypeError, and the steps it hands to #chainOrCall in order
chainOrCallHooks(c, event, hooksOf) ==
  LET chain == Reverse(getCommandAndAncestors(c))
      threw == \E k \in 1..Len(chain) : hooksOf[chain[k]][event] = Null
      hooks == IF threw THEN <<>> ELSE collectHooks(chain, 1, event, hooksOf, c)
  IN [threw |-> threw,
      steps |-> IF event = "postAction" THEN Reverse(hooks) ELSE hooks]

\* a subcommand dispatch that calls no hook
chainOrCallSubCommandHook_skipped(c, subCommand, event, hooksOf) ==
  [threw |-> FALSE, steps |-> <<>>]

\* #chainOrCallSubCommandHook(promise, subCommand, event) of command c
chainOrCallSubCommandHook(c, subCommand, event, hooksOf) ==
  IF hooksOf[c][event] = Null
    THEN [threw |-> TRUE, steps |-> <<>>]
    ELSE [threw |-> FALSE, steps |-> hookSteps(c, event, hooksOf[c][event], subCommand)]

\* a test that never finds a promise to chain to
isThenable_never(promise) == FALSE

\* the test of #chainOrCall: promise?.then is a function
isThenable(promise) == promise = "promise"

\* if (operands && this.#findCommand(operands[0])) return
\* this.#dispatchSubcommand(operands[0], operands.slice(1), unknown)
DispatchSubcommand ==
  /\ pc = "dispatch"
  /\ operands # <<>> /\ findCommand(cur, Head(operands)) # NoCommand
  /\ LET subCommand == findCommand(cur, Head(operands))
     IN todo' = <<Step("collectSub", "preSubcommand", cur, 0, subCommand),
                  Step("dispatch", "", cur, 0, subCommand)>>
  /\ operands' = Tail(operands)
  /\ promiseChain' = "undefined"
  /\ pc' = "chain"
  /\ UNCHANGED <<configVars, lifeCycleHooks, store, rawArgs, cmdArgs, processedArgs,
                 cur, unknown, frame, chained, running, awaited, inThen, log,
                 actionCalls, result, rejected, handleReturned, exit>>

\* the checks before the action, #processArguments(), and the chain of the
\* action handler: lines 1535-1563
ProcessLeaf ==
  /\ pc = "dispatch"
  /\ ~(operands # <<>> /\ findCommand(cur, Head(operands)) # NoCommand)
  /\ ~(hasHelpCommand(cur) /\ operands # <<>> /\ Head(operands) = TokHelpCmd)
  /\ defaultCommandName(cur) = NoCommand
  /\ hasActionHandler(cur)
  /\ LET code == leafError(cur, store, frame.unknown, cmdArgs[cur],
                           settings[cur].allowUnknownOption,
                           settings[cur].allowExcessArguments)
     IN IF code # ""
          THEN /\ Exit(code)
               /\ UNCHANGED <<processedArgs, promiseChain>>
          ELSE /\ processedArgs' =
                    [processedArgs EXCEPT ![cur] = processArguments(cur, cmdArgs[cur])]
               /\ todo' = <<Step("collect", "preAction", cur, 0, NoCommand),
                            Step("action", "", cur, 0, NoCommand)>>
                          \o (IF parent(cur) # NoCommand
                                THEN <<Step("emit", "", cur, 0, parent(cur))>> ELSE <<>>)
                          \o <<Step("collect", "postAction", cur, 0, NoCommand)>>
               /\ promiseChain' = "undefined"
               /\ log' = Append(log, <<"processArguments", Step("leaf", "", cur, 0, NoCommand)>>)
               /\ pc' = "chain"
               /\ UNCHANGED <<exit, inThen, result, rejected>>
  /\ UNCHANGED <<configVars, lifeCycleHooks, store, rawArgs, cmdArgs, cur, operands,
                 unknown, frame, chained, running, awaited, actionCalls,
                 handleReturned>>

\* the call of a listener, of the action handler or of the legacy emit: the
\* callback starts, and returns a completion handle or finishes at once
CallBack(s, returnsHandle) ==
  /\ s.kind = "emit" => ~returnsHandle
  /\ log' = log \o (IF returnsHandle THEN << <<"start", s>> >>
                    ELSE << <<"start", s>>, <<"end", s>> >>)
  /\ running' = IF returnsHandle THEN running \cup {s} ELSE running
  /\ awaited' = s
  /\ handleReturned' = (handleReturned \/ returnsHandle)
  /\ actionCalls' = IF s.kind = "action"
                      THEN Append(actionCalls, <<s.cmd, processedArgs[s.cmd]>>)
                      ELSE actionCalls

\* subCommand.#parseCommand(operands, unknown) begins
ParseSubCommand(s) ==
  /\ cur' = s.target
  /\ frame' = NewFrame(unknown)
  /\ promiseChain' = "undefined"
  /\ pc' = "parseOptions"

\* the collecting loop of #chainOrCallHooks or #chainOrCallSubCommandHook
CollectHooks ==
  /\ pc = "chain" /\ todo # <<>>
  /\ Head(todo).kind \in {"collect", "collectSub"}
  /\ LET s == Head(todo)
         r == IF s.kind = "collect"
                THEN chainOrCallHooks(s.cmd, s.event, lifeCycleHooks)
                ELSE chainOrCallSubCommandHook(s.cmd, s.target, s.event, lifeCycleHooks)
     IN IF r.threw
          THEN Throw
          ELSE /\ todo' = r.steps \o Tail(todo)
               /\ UNCHANGED <<pc, inThen, result, rejected>>
  /\ UNCHANGED <<configVars, lifeCycleHooks, store, parseVars, promiseChain, chained,
                 running, awaited, log, actionCalls, handleReturned, exit>>

\* #chainOrCall(promiseChain, fn) for the next step of the running function
ChainOrCall ==
  /\ pc = "chain" /\ todo # <<>>
  /\ Head(todo).kind \in {"hook", "action", "emit", "dispatch"}
  /\ ~(Head(todo).kind = "dispatch" /\ executableHandler(Head(todo).target)
         /\ ~isThenable(promiseChain))
  /\ todo' = Tail(todo)
  /\ LET s == Head(todo)
     IN IF isThenable(promiseChain)
          THEN /\ chained' = Append(chained, s)
               /\ UNCHANGED <<promiseChain, running, awaited, log, actionCalls,
                              handleReturned, cur, frame, pc>>
        ELSE IF s.kind = "dispatch"
          THEN /\ ParseSubCommand(s)
               /\ UNCHANGED <<chained, running, awaited, log, actionCalls,
                              handleReturned>>
        ELSE \E returnsHandle \in BOOLEAN :
               /\ CallBack(s, returnsHandle)
               /\ promiseChain' = IF returnsHandle THEN "promise" ELSE "undefined"
               /\ UNCHANGED <<chained, cur, frame, pc>>
  /\ UNCHANGED <<configVars, lifeCycleHooks, store, rawArgs, cmdArgs, processedArgs,
                 operands, unknown, inThen, result, rejected, exit>>

\* return promiseChain: the running function returns, to parse or to the
\* promise of the then callback it ran in
Return ==
  /\ pc = "chain" /\ todo = <<>>
  /\ IF inThen
       THEN UNCHANGED result
       ELSE result' = IF promiseChain = "promise" THEN "promise" ELSE "finished"
  /\ inThen' = FALSE
  /\ pc' = "idle"
  /\ UNCHANGED <<configVars, lifeCycleHooks, store, parseVars, todo, promiseChain,
                 chained, running, awaited, log, actionCalls, rejected,
                 handleReturned, exit>>

\* the completion handle a callback returned completes
Complete(s) ==
  /\ pc = "idle"
  /\ s \in running /\ s.kind # "spawn"
  /\ running' = running \ {s}
  /\ log' = Append(log, <<"end", s>>)
  /\ UNCHANGED <<configVars, lifeCycleHooks, store, parseVars, pc, todo, promiseChain,
                 chained, awaited, inThen, actionCalls, result, rejected,
                 handleReturned, exit>>

\* the promise the oldest then callback waits for is fulfilled: it runs
RunChained ==
  /\ pc = "idle"
  /\ chained # <<>>
  /\ awaited \notin running
  /\ ~(Head(chained).kind = "dispatch" /\ executableHandler(Head(chained).target))
  /\ chained' = Tail(chained)
  /\ LET s == Head(chained)
     IN IF s.kind = "dispatch"
          THEN /\ ParseSubCommand(s)
               /\ inThen' = TRUE
               /\ UNCHANGED <<running, awaited, log, actionCalls, handleReturned>>
          ELSE \E returnsHandle \in BOOLEAN :
                 /\ CallBack(s, returnsHandle)
                 /\ UNCHANGED <<cur, frame, promiseChain, pc, inThen>>
  /\ UNCHANGED <<configVars, lifeCycleHooks, store, rawArgs, cmdArgs, processedArgs,
                 operands, unknown, todo, result, rejected, exit>>

(***************************************************************************)
(* Commands without an action handler, the help command and executable     *)
(* subcommands.                                                            *)
(***************************************************************************)
\* the error that ends #parseCommand of a command that has subcommands and
\* no action handler, once no subcommand, help command or default command
\* took the operands: lines 1523-1537 and 1565-1586.  No listener is
\* registered for command:* or for the legacy command event.
parentError(c, stores, parsedUnknown, args, ops, allowUnknownOption) ==
  IF args = <<>> THEN "commander.help"
  ELSE IF helpRequested(parsedUnknown) THEN "commander.helpDisplayed"
  ELSE IF missingMandatoryOption(c, stores) THEN "commander.missingMandatoryOptionValue"
  ELSE IF conflictingOptions(c, stores) THEN "commander.conflictingOption"
  ELSE IF ops # <<>> THEN "commander.unknownCommand"
  ELSE IF parsedUnknown # <<>> /\ ~allowUnknownOption THEN "commander.unknownOption"
  ELSE "commander.help"

\* the rest of #parseCommand for a command with subcommands and no action
\* handler: every path ends in this.help({ error: true }) or an error
ProcessParent ==
  /\ pc = "dispatch"
  /\ ~(operands # <<>> /\ findCommand(cur, Head(operands)) # NoCommand)
  /\ ~(hasHelpCommand(cur) /\ operands # <<>> /\ Head(operands) = TokHelpCmd)
  /\ defaultCommandName(cur) = NoCommand
  /\ ~hasActionHandler(cur) /\ Len(commands(cur)) > 0
  /\ Exit(parentError(cur, store, frame.unknown, cmdArgs[cur], operands,
                      settings[cur].allowUnknownOption))
  /\ UNCHANGED <<configVars, lifeCycleHooks, store, parseVars, promiseChain, chained,
                 running, awaited, actionCalls, handleReturned>>

\* #dispatchHelpCommand(operands[1]): help of this command, help of the
\* subcommand named, or the dispatch of --help to a subcommand that is
\* unknown (help with error of this command) or executable
DispatchHelpCommand ==
  /\ pc = "dispatch"
  /\ ~(operands # <<>> /\ findCommand(cur, Head(operands)) # NoCommand)
  /\ hasHelpCommand(cur) /\ operands # <<>> /\ Head(operands) = TokHelpCmd
  /\ LET subcommandName == IF Len(operands) > 1 THEN operands[2] ELSE <<>>
         subCommand == findCommand(cur, subcommandName)
     IN IF subcommandName = <<>>
          THEN ExitAt(cur, 0, "commander.help")
               /\ UNCHANGED <<operands, unknown, promiseChain>>
        ELSE IF subCommand # NoCommand /\ ~executableHandler(subCommand)
          THEN ExitAt(subCommand, 0, "commander.help")
               /\ UNCHANGED <<operands, unknown, promiseChain>>
        ELSE IF subCommand = NoCommand
          THEN ExitAt(cur, 1, "commander.help")
               /\ UNCHANGED <<operands, unknown, promiseChain>>
        ELSE /\ todo' = <<Step("collectSub", "preSubcommand", cur, 0, subCommand),
                          Step("dispatch", "", cur, 0, subCommand)>>
             /\ operands' = <<>>
             /\ unknown' = <<TokHelp>>
             /\ promiseChain' = "undefined"
             /\ pc' = "chain"
             /\ UNCHANGED <<exit, inThen, result, rejected, log>>
  /\ UNCHANGED <<configVars, lifeCycleHooks, store, rawArgs, cmdArgs, processedArgs,
                 cur, frame, chained, running, awaited, actionCalls, handleReturned>>

(***************************************************************************)
(* incrementNodeInspectorPort: the rewrite of process.execArgv for the     *)
(* child process.                                                          *)
(***************************************************************************)
Digits == <<"0", "1", "2", "3", "4", "5", "6", "7", "8", "9">>

\* /^\d+$/.test(s)
allDigits(s) == s # <<>> /\ \A i \in 1..Len(s) : IndexOf(Digits, s[i]) # 0

\* Number.parseInt(s) of a string of digits
RECURSIVE parseInt(_)
parseInt(s) ==
  IF s = <<>> THEN 0
  ELSE 10 * parseInt(SubSeq(s, 1, Len(s) - 1)) + (IndexOf(Digits, s[Len(s)]) - 1)

\* the decimal string of a natural number, as a template literal prints it
RECURSIVE numberToString(_)
numberToString(n) ==
  IF n < 10 THEN <<Digits[n + 1]>>
  ELSE numberToString(n \div 10) \o <<Digits[(n % 10) + 1]>>

InspectFlag == <<"-", "-", "i", "n", "s", "p", "e", "c", "t">>
InspectBrkFlag == InspectFlag \o <<"-", "b", "r", "k">>
InspectPortFlag == InspectFlag \o <<"-", "p", "o", "r", "t">>
DefaultDebugHost == <<"1", "2", "7", ".", "0", ".", "0", ".", "1">>
DefaultDebugPort == <<"9", "2", "2", "9">>

\* the three regular expressions of incrementNodeInspectorPort applied to
\* arg: debugOption (<<>> when none matches), debugHost and debugPort
matchInspect(arg) ==
  LET none == [debugOption |-> <<>>, debugHost |-> DefaultDebugHost,
               debugPort |-> DefaultDebugPort]
      flags == {f \in {InspectFlag, InspectBrkFlag, InspectPortFlag} :
                  StartsWith(arg, f \o <<"=">>)}
  IN IF arg \in {InspectFlag, InspectBrkFlag}
       THEN [none EXCEPT !.debugOption = arg]
     ELSE IF flags = {} THEN none
     ELSE LET f == CHOOSE x \in flags : TRUE
              rest == Slice(arg, Len(f) + 1)
              colon == IndexOf(rest, ":")
              host == SubSeq(rest, 1, colon - 1)
              port == Slice(rest, colon)
          IN IF rest # <<>> /\ colon = 0
               THEN IF allDigits(rest)
                      THEN [none EXCEPT !.debugOption = f, !.debugPort = rest]
                      ELSE [none EXCEPT !.debugOption = f, !.debugHost = rest]
             ELSE IF colon > 1 /\ allDigits(port)
               THEN [debugOption |-> f, debugHost |-> host, debugPort |-> port]
             ELSE none

\* a rewrite that increments a port of 0 as well
incrementArg_zeroToo(arg) ==
  LET m == matchInspect(arg)
  IN IF StartsWith(arg, InspectFlag) /\ m.debugOption # <<>>
       THEN m.debugOption \o <<"=">> \o m.debugHost \o <<":">>
              \o numberToString(parseInt(m.debugPort) + 1)
       ELSE arg

\* the callback of args.map
incrementArg(arg) ==
  LET m == matchInspect(arg)
  IN IF StartsWith(arg, InspectFlag) /\ m.debugOption # <<>> /\ m.debugPort # <<"0">>
       THEN m.debugOption \o <<"=">> \o m.debugHost \o <<":">>
              \o numberToString(parseInt(m.debugPort) + 1)
       ELSE arg

\* incrementNodeInspectorPort(args)
incrementNodeInspectorPort(args) == [i \in 1..Len(args) |-> incrementArg(args[i])]

\* the file of the executable subcommand of the fixture, when a local file
\* with a source extension was found
ExecutableFile == <<"p", "a", "i", "n", "t", "-", "w", "o", "r", "k", "e", "r", ".", "j", "s">>

\* the arguments of childProcess.spawn: with node, the rewritten execArgv,
\* the file and the arguments of the subcommand; else the arguments alone
spawnArguments(launchWithNode, args) ==
  IF launchWithNode
    THEN incrementNodeInspectorPort(execArgv) \o <<ExecutableFile>> \o args
    ELSE args

\* the child process _executeSubCommand spawns for a subcommand
Spawned(s) == Step("spawn", "", s.cmd, 0, s.target)

\* _executeSubCommand(subCommand, operands.concat(unknown)), called by the
\* dispatch step at once or from a then callback: the checks of lines
\* 1197-1198 pass (the parent of the executable subcommand of the fixture
\* declares no mandatory and no conflicting option), the child process is
\* spawned and the call returns undefined.  Whether the file found has a
\* source extension, and so is launched with node, is up to the file system.
ExecuteSubCommand ==
  /\ \/ /\ pc = "chain" /\ todo # <<>>
        /\ Head(todo).kind = "dispatch" /\ executableHandler(Head(todo).target)
        /\ ~isThenable(promiseChain)
        /\ running' = running \cup {Spawned(Head(todo))}
        /\ log' = Append(log, <<"spawn", Spawned(Head(todo))>>)
        /\ ~missingMandatoryOption(Head(todo).cmd, store)
        /\ ~conflictingOptions(Head(todo).cmd, store)
        /\ todo' = Tail(todo)
        /\ promiseChain' = "undefined"
        /\ UNCHANGED chained
     \/ /\ pc = "idle" /\ chained # <<>> /\ awaited \notin running
        /\ Head(chained).kind = "dispatch" /\ executableHandler(Head(chained).target)
        /\ running' = running \cup {Spawned(Head(chained))}
        /\ log' = Append(log, <<"spawn", Spawned(Head(chained))>>)
        /\ ~missingMandatoryOption(Head(chained).cmd, store)
        /\ ~conflictingOptions(Head(chained).cmd, store)
        /\ chained' = Tail(chained)
        /\ UNCHANGED <<todo, promiseChain>>
  /\ \E launchWithNode \in BOOLEAN :
       spawnArgs' = spawnArguments(launchWithNode, operands \o unknown)
  /\ UNCHANGED <<env, settings, execArgv, draft, saved, lifeCycleHooks, store, parseVars, pc,
                 awaited, inThen, actionCalls, result, rejected, handleReturned, exit>>

\* the listeners of the child process for close and for error: without an
\* exit callback process.exit(code); with one, the callback is called with
\* the CommanderError of code commander.executeSubCommandAsync and nothing
\* follows it.  An error the callback throws leaves the listener, not parse.
ProcEvent(s, code) ==
  /\ pc = "idle"
  /\ s \in running /\ s.kind = "spawn"
  /\ running' = running \ {s}
  /\ LET callback == settings[s.cmd].exitCallback
     IN IF callback = "none"
          THEN exit' = <<code, "">> /\ pc' = "exited" /\ UNCHANGED log
        ELSE IF exitCallbackThrows(callback, "commander.executeSubCommandAsync")
          THEN /\ log' = Append(log, Thrown(s.cmd, code, "commander.executeSubCommandAsync"))
               /\ UNCHANGED <<exit, pc>>
        ELSE UNCHANGED <<exit, pc, log>>
  /\ UNCHANGED <<configVars, lifeCycleHooks, store, parseVars, todo, promiseChain,
                 chained, awaited, inThen, actionCalls, result, rejected,
                 handleReturned>>

\* proc.on("close"): code is the exit code of the child, 1 after a signal
ProcClose(s, code) == ProcEvent(s, code)

\* proc.on("error") for an error other than ENOENT and EACCES
ProcError(s) == ProcEvent(s, 1)

(***************************************************************************)
(* Specifications of the token parser and the value resolver on the        *)
(* program command.                                                        *)
(***************************************************************************)
SeqsUpTo(S, n) == UNION {[1..k -> S] : k \in 0..n}

NoEnv == [x \in {} |-> <<>>]
Environments ==
  {[x \in D |-> IF x = "PORT" THEN Str9000 ELSE Str1] : D \in SUBSET {"PORT", "VERBOSE"}}

\* the token parser: command lines over --, -p, -u, x and sub, with
\* pass-through and positional options turned on or off
TokenAlphabet == {DashDash, TokP, TokU, TokX, TokSub}

InitTokens ==
  /\ InitProgram
  /\ env = NoEnv
  /\ settings = [c \in Commands |-> DefaultSettings]

NextTokens ==
  \/ \E b \in BOOLEAN : EnablePositionalOptions("prog", b)
  \/ \E b \in BOOLEAN : PassThroughOptions("prog", b)
  \/ pc = "setup" /\ \E argv \in SeqsUpTo(TokenAlphabet, MaxArgv) : Parse(argv)
  \/ ParseOptionsStep
  \/ ParseOptionsEnv
  \/ ParseOptionsImplied
  \/ SetArgs

SpecTokens == InitTokens /\ [][NextTokens]_vars

\* the value resolver: command lines over -p, -v and x, with PORT and VERBOSE
\* in the environment or not, after any calls of setOptionValueWithSource
\* (or setOptionValue, which records no source) for port
ResolveAlphabet == {TokP, TokV, TokX}
Sources == {"undefined", "default", "config", "env", "cli", "implied"}

InitResolve ==
  /\ InitProgram
  /\ env \in Environments
  /\ settings = [c \in Commands |-> DefaultSettings]

NextResolve ==
  \/ \E src \in Sources : SetOptionValueWithSource(KeyPort, VStr(StrCfg), src)
  \/ pc = "setup" /\ \E argv \in SeqsUpTo(ResolveAlphabet, MaxArgv) : Parse(argv)
  \/ ParseOptionsStep
  \/ ParseOptionsEnv
  \/ ParseOptionsImplied
  \/ SetArgs

SpecResolve == InitResolve /\ [][NextResolve]_vars

\* the commands on the way to leaf, and those of them that have subcommands:
\* the ones whose preSubcommand hooks are read
HookedCommands == {"prog", "sub", "leaf"}
Parents == {c \in HookedCommands : commands(c) # <<>>}

\* the steps of a parse after the client's calls
ParseSteps ==
  \/ ParseOptionsStep
  \/ ParseOptionsEnv
  \/ ParseOptionsImplied
  \/ SetArgs
  \/ DispatchSubcommand
  \/ ProcessLeaf
  \/ CollectHooks
  \/ ChainOrCall
  \/ Return
  \/ \E s \in running : Complete(s)
  \/ RunChained

\* the dispatcher: any preAction and postAction hooks on the three commands
\* and at most one preSubcommand hook on each parent, a command line that
\* names the program, sub with its argument or leaf, and callbacks that each
\* return a completion handle or not
HookArgvs == {<<>>, <<TokSub, TokX>>, <<TokSub, TokLeaf>>}

InitHooks ==
  /\ InitProgram
  /\ env = NoEnv
  /\ settings = [c \in Commands |-> DefaultSettings]

NextHooks ==
  \/ \E c \in HookedCommands : \E e \in {"preAction", "postAction"} : Hook(c, e)
  \/ \E c \in Parents : lifeCycleHooks[c]["preSubcommand"] = Null /\ Hook(c, "preSubcommand")
  \/ \E argv \in HookArgvs : Parse(argv)
  \/ ParseSteps

SpecHooks == InitHooks /\ [][NextHooks]_vars

\* the dispatch of subcommands: any preSubcommand hooks on the parents and
\* at most one preAction and one postAction hook on each command
NextSubcommand ==
  \/ \E c \in Parents : Hook(c, "preSubcommand")
  \/ \E c \in HookedCommands : \E e \in {"preAction", "postAction"} :
       lifeCycleHooks[c][e] = Null /\ Hook(c, e)
  \/ \E argv \in HookArgvs : Parse(argv)
  \/ ParseSteps

SpecSubcommand == InitHooks /\ [][NextSubcommand]_vars

(***************************************************************************)
(* Claims about the value resolver.                                        *)
(***************************************************************************)
portValue(st) == getOptionValue(st, KeyPort)
portSource(st) == getOptionValueSource(st, KeyPort)

\* the options of the program whose env var is in the environment
EnvOptions == {i \in 1..Len(options("prog")) : options("prog")[i].envVar \in DOMAIN env}

\* the environment pass of the program runs
EnvPassRuns == pc = "env" /\ pc' = "implied" /\ cur = "prog"

\* the environment pass stored the env value of option o / left its attribute alone
EnvApplied(o) ==
  /\ getOptionValue(store'["prog"], attributeName(o))
       = IF o.required THEN VStr(env[o.envVar]) ELSE VBool(TRUE)
  /\ getOptionValueSource(store'["prog"], attributeName(o)) = "env"
Kept(key) ==
  /\ getOptionValue(store'["prog"], key) = getOptionValue(store["prog"], key)
  /\ getOptionValueSource(store'["prog"], key) = getOptionValueSource(store["prog"], key)

\* C1 as stated: the environment pass applies the env value of an option
\* exactly when the current source of its attribute is undefined, default,
\* config or env, and leaves the attribute alone otherwise.
C1_AsStated ==
  [][EnvPassRuns =>
       \A i \in EnvOptions :
         LET o == options("prog")[i]
         IN IF getOptionValueSource(store["prog"], attributeName(o))
                 \in {"undefined", "default", "config", "env"}
              THEN EnvApplied(o) ELSE Kept(attributeName(o))]_vars

\* C1 amended: the environment pass applies the env value of an option
\* exactly when its attribute has no value or the source of the value is
\* default, config or env; a value whose source is cli or implied, or a value
\* with no recorded source (set by setOptionValue), keeps value and source.
C1_EnvPass ==
  [][EnvPassRuns =>
       \A i \in EnvOptions :
         LET o == options("prog")[i]
         IN IF getOptionValue(store["prog"], attributeName(o)) = Undefined
                 \/ getOptionValueSource(store["prog"], attributeName(o))
                      \in {"default", "config", "env"}
              THEN EnvApplied(o) ELSE Kept(attributeName(o))]_vars

\* with PORT and VERBOSE in the environment and -p x on the command line,
\* port kept the value from the command line and verbose got the env value
C1_Witness ==
  /\ pc = "implied" /\ DOMAIN env = {"PORT", "VERBOSE"}
  /\ rawArgs = <<TokP, TokX>>
  /\ portValue(store["prog"]) = VStr(TokX) /\ portSource(store["prog"]) = "cli"
  /\ getOptionValue(store["prog"], KeyVerbose) = VBool(TRUE)
  /\ getOptionValueSource(store["prog"], KeyVerbose) = "env"

\* the implied pass of the program runs while --verbose, which implies port,
\* holds a value that is neither a default nor implied
ImpliedPassRuns ==
  /\ pc = "implied" /\ pc' = "args" /\ cur = "prog"
  /\ getOptionValue(store["prog"], KeyVerbose) # Undefined
  /\ getOptionValueSource(store["prog"], KeyVerbose) \notin {"default", "implied"}

ImpliedApplied ==
  portValue(store'["prog"]) = VStr(Str1) /\ portSource(store'["prog"]) = "implied"

\* C2 as stated: implied outranks config: an attribute whose source is
\* config holds the implied value with source implied after the pass, and
\* one whose source is cli or env is not overwritten.
C2_AsStated ==
  [][ImpliedPassRuns =>
       /\ portSource(store["prog"]) = "config" => ImpliedApplied
       /\ portSource(store["prog"]) \in {"cli", "env"} => Kept(KeyPort)]_vars

\* C2 amended: config outranks implied.  The implied pass overwrites an
\* attribute exactly when it has no value or the source of its value is
\* default or implied; a defined value whose source is config, cli or env
\* (or not recorded) keeps its value and source.
C2_ImpliedPass ==
  [][ImpliedPassRuns =>
       IF portValue(store["prog"]) = Undefined
            \/ portSource(store["prog"]) \in {"default", "implied"}
         THEN ImpliedApplied ELSE Kept(KeyPort)]_vars

\* --verbose was given and port, set from a config, kept its value
C2_Witness ==
  /\ pc = "args" /\ rawArgs = <<TokV>>
  /\ getOptionValueSource(store["prog"], KeyVerbose) = "cli"
  /\ portValue(store["prog"]) = VStr(StrCfg) /\ portSource(store["prog"]) = "config"

(***************************************************************************)
(* Claims about the token parser.                                          *)
(***************************************************************************)
Elements(seq) == {seq[i] : i \in 1..Len(seq)}

\* C3 as stated: -- is never an element of the operands the token parser
\* returns nor of the args of the command.
C3_AsStated ==
  pc = "dispatch" =>
    DashDash \notin Elements(frame.operands) \cup Elements(cmdArgs["prog"])

\* C3 amended: when the token parser meets -- as the token to classify while
\* it routes to operands, that -- is dropped: the operands get exactly the
\* tokens after it, unknown is left alone and the parser stops.
C3_LiteralDropped ==
  [][(pc = "parseOptions" /\ frame.args # <<>> /\ Head(frame.args) = DashDash
        /\ frame.dest = "operands")
       => /\ frame'.operands = frame.operands \o Tail(frame.args)
          /\ frame'.unknown = frame.unknown
          /\ pc' = "env"]_vars

\* x -- -u was parsed: the -- is gone and -u is an operand
C3_Witness ==
  /\ pc = "dispatch" /\ rawArgs = <<TokX, DashDash, TokU>>
  /\ cmdArgs["prog"] = <<TokX, TokU>>

\* The place in argv of the first positional operand of command c, 0 if there
\* is none, by the shapes of the options c declares: a declared option and
\* the argument it takes are skipped, as is every other token that looks like
\* an option; the token after -- is positional.
RECURSIVE FirstPositional(_, _, _)
FirstPositional(c, argv, i) ==
  IF i > Len(argv) THEN 0
  ELSE IF argv[i] = DashDash THEN (IF i < Len(argv) THEN i + 1 ELSE 0)
  ELSE IF ~maybeOption(argv[i]) THEN i
  ELSE IF findOption(c, argv[i]) = 0 THEN FirstPositional(c, argv, i + 1)
  ELSE LET o == options(c)[findOption(c, argv[i])]
           taken == IF o.required THEN 1
                    ELSE IF o.optional /\ i < Len(argv) /\ ~maybeOption(argv[i + 1]) THEN 1
                    ELSE 0
           more == IF o.variadic
                     THEN {n \in 0..(Len(argv) - i - taken) :
                             \A k \in 1..n : ~maybeOption(argv[i + taken + k])
                                               /\ argv[i + taken + k] # DashDash}
                     ELSE {0}
           run == CHOOSE n \in more : \A m \in more : m <= n
       IN FirstPositional(c, argv, i + 1 + taken + run)

\* C4: with pass-through on, every token of argv from the first positional
\* operand on is in args, verbatim and in order: args is the end of argv from
\* that operand, or from an earlier token.
C4_PassThrough ==
  (pc = "dispatch" /\ settings["prog"].passThroughOptions
     /\ FirstPositional("prog", rawArgs, 1) # 0)
    => \E j \in 1..FirstPositional("prog", rawArgs, 1) :
         cmdArgs["prog"] = SubSeq(rawArgs, j, Len(rawArgs))

\* x -p x was parsed with pass-through on: -p was not taken as the option
C4_Witness ==
  /\ pc = "dispatch" /\ settings["prog"].passThroughOptions
  /\ rawArgs = <<TokX, TokP, TokX>>
  /\ cmdArgs["prog"] = rawArgs
  /\ portSource(store["prog"]) = "default"

(***************************************************************************)
(* Claims about the dispatcher.                                            *)
(***************************************************************************)
\* places of the log
Starts(kind, event) ==
  {i \in 1..Len(log) : log[i][1] = "start" /\ log[i][2].kind = kind
                         /\ log[i][2].event = event}
Ends(kind, event) ==
  {i \in 1..Len(log) : log[i][1] = "end" /\ log[i][2].kind = kind
                         /\ log[i][2].event = event}
Depth(c) == Len(getCommandAndAncestors(c))

\* the command whose action handler branch was taken, if any
ProcessedLeaf(a) ==
  \E i \in 1..Len(log) : log[i][1] = "processArguments" /\ log[i][2].cmd = a

\* nothing is running or waiting to run
Quiescent == pc = "idle" /\ chained = <<>> /\ running = {}

\* the hooks registered for an event on command a and its ancestors
Registered(a, event) ==
  {<<c, id>> \in Elements(getCommandAndAncestors(a)) \X (1..MaxHooks) :
     id <= hookCount(lifeCycleHooks[c][event])}

\* C5 as stated: once the dispatch of a command whose action handler branch
\* was taken has come to rest, the action was called exactly once, with
\* processedArgs, after the end of every registered preAction hook and before
\* the start of every postAction hook, whatever the number of hooks.
C5_AsStated ==
  \A a \in Commands :
    (ProcessedLeaf(a) /\ Quiescent) =>
      /\ actionCalls = << <<a, processedArgs[a]>> >>
      /\ \A h \in Registered(a, "preAction") :
           \E i \in Ends("hook", "preAction") : \E j \in Starts("action", "") :
             log[i][2].cmd = h[1] /\ log[i][2].id = h[2] /\ i < j
      /\ \A i \in Starts("hook", "postAction") : \E j \in Ends("action", "") : j < i

\* C6: of two preAction hooks that started, the earlier one is on a command
\* nearer the root, or on the same command and registered earlier; and when
\* the action starts every preAction hook registered on the action command
\* and its ancestors has started.
C6_PreActionOrder ==
  LET started == Starts("hook", "preAction")
      depth == [c \in Commands |-> Depth(c)]
  IN /\ \A i \in started : \A j \in started :
          i < j => \/ depth[log[i][2].cmd] < depth[log[j][2].cmd]
                   \/ log[i][2].cmd = log[j][2].cmd /\ log[i][2].id < log[j][2].id
     /\ \A j \in Starts("action", "") : \A h \in Registered(log[j][2].cmd, "preAction") :
          \E i \in started : log[i][2].cmd = h[1] /\ log[i][2].id = h[2] /\ i < j

\* the action of leaf started after two preAction hooks of the program, one
\* of sub and two of leaf
C6_Witness ==
  /\ \E j \in Starts("action", "") : log[j][2].cmd = "leaf"
  /\ hookCount(lifeCycleHooks["prog"]["preAction"]) = 2
  /\ hookCount(lifeCycleHooks["sub"]["preAction"]) = 1
  /\ hookCount(lifeCycleHooks["leaf"]["preAction"]) = 2

\* C7 as stated: of two postAction hooks that started, the earlier one is on
\* a command farther from the root, or on the same command and declared earlier.
C7_AsStated ==
  \A i \in Starts("hook", "postAction") : \A j \in Starts("hook", "postAction") :
    i < j => \/ Depth(log[i][2].cmd) > Depth(log[j][2].cmd)
             \/ log[i][2].cmd = log[j][2].cmd /\ log[i][2].id < log[j][2].id

\* C7 amended: of two postAction hooks that started, the earlier one is on a
\* command farther from the root, or on the same command and declared later:
\* the hooks of one command run in the reverse of their declaration order.
C7_PostActionOrder ==
  LET started == Starts("hook", "postAction")
      depth == [c \in Commands |-> Depth(c)]
  IN \A i \in started : \A j \in started :
       i < j => \/ depth[log[i][2].cmd] > depth[log[j][2].cmd]
                \/ log[i][2].cmd = log[j][2].cmd /\ log[i][2].id > log[j][2].id

\* the dispatch of leaf came to rest after two postAction hooks of leaf and
\* one of the program
C7_Witness ==
  /\ Quiescent /\ ProcessedLeaf("leaf")
  /\ hookCount(lifeCycleHooks["leaf"]["postAction"]) = 2
  /\ \E i \in Starts("hook", "postAction") : log[i][2].cmd = "leaf" /\ log[i][2].id = 1
  /\ \E i \in Starts("hook", "postAction") : log[i][2].cmd = "prog"

\* the step that starts in this transition, NoStep if none does
StartedNow ==
  IF Len(log') > Len(log) /\ log'[Len(log) + 1][1] = "start"
    THEN log'[Len(log) + 1][2] ELSE NoStep

\* C8: a hook, an action or the legacy emit starts only while no completion
\* handle is pending, and a child's dispatch begins only then; at most one
\* handle is ever pending; and as long as no callback has returned a handle,
\* the next step of the running function starts at once.
C8_Sequential ==
  [][/\ StartedNow # NoStep => running = {}
     /\ cur' # cur => running = {}
     /\ Cardinality(running') <= 1
     /\ (pc = "chain" /\ todo # <<>> /\ Head(todo).kind \in {"hook", "action", "emit"}
           /\ ~handleReturned) => StartedNow = Head(todo)]_vars

\* the action of sub is in progress after a preAction hook that returned a
\* handle, with the emit and a postAction hook waiting for it
C8_Witness ==
  /\ pc = "idle" /\ Len(chained) >= 2
  /\ \E s \in running : s.kind = "action" /\ s.cmd = "sub"
  /\ Ends("hook", "preAction") # {}

\* C9: when the #parseCommand of a child begins, every preSubcommand hook
\* registered on the parent has ended and no completion handle is pending.
C9_PreSubcommandFirst ==
  [][cur' # cur =>
       /\ running = {}
       /\ \A id \in 1..hookCount(lifeCycleHooks[cur]["preSubcommand"]) :
            \E i \in Ends("hook", "preSubcommand") :
              log[i][2].cmd = cur /\ log[i][2].id = id /\ log[i][2].target = cur']_vars

\* the token parsing of sub begins in a then callback, after the two
\* preSubcommand hooks of the program, one of which returned a handle
C9_Witness ==
  /\ cur = "sub" /\ pc = "parseOptions" /\ inThen
  /\ hookCount(lifeCycleHooks["prog"]["preSubcommand"]) = 2
  /\ Cardinality(Ends("hook", "preSubcommand")) = 2

\* C10 as stated: what the dispatch comes to for parse is a completion handle
\* if and only if some callback of the chain returned one; and when it is a
\* finished result nothing of the dispatch is left to run.
C10_AsStated ==
  result # "pending" =>
    /\ (result = "promise") <=> handleReturned
    /\ result = "finished" => Quiescent

\* C11 as stated: when the first operand of the program names a child, then
\* once the dispatch has come to rest or the process has exited, the child
\* was parsed, with the rest of the program's args as its own args, and
\* neither the program's action nor a preAction or postAction hook whose
\* action command is the program has run, whatever the number of the
\* program's preSubcommand hooks.
C11_AsStated ==
  ((Quiescent \/ pc = "exited") /\ cmdArgs["prog"] # <<>>
     /\ findCommand("prog", Head(cmdArgs["prog"])) # NoCommand) =>
    /\ cmdArgs[findCommand("prog", Head(cmdArgs["prog"]))] = Tail(cmdArgs["prog"])
    /\ \A i \in 1..Len(actionCalls) : actionCalls[i][1] # "prog"
    /\ \A i \in 1..Len(log) : log[i][1] = "start" => log[i][2].target # "prog"
    /\ \A id \in 1..hookCount(lifeCycleHooks["prog"]["preSubcommand"]) :
         \E i \in Ends("hook", "preSubcommand") : log[i][2].cmd = "prog" /\ log[i][2].id = id

(***************************************************************************)
(* Validation at the leaf: build and its subcommand job.                   *)
(***************************************************************************)
\* command lines that name build, then -s, -lx, job, -q, -d and -h in any
\* order, with MODE in the environment or not; the program and build have
\* at most one preSubcommand hook each
ValidateAlphabet == {TokS, TokLX, TokJob, TokQ, TokD, TokH}
ValidateCommands == {"prog", "build"}

InitValidate ==
  /\ InitProgram
  /\ env \in {NoEnv, [x \in {"MODE"} |-> StrFast]}
  /\ settings = [c \in Commands |-> DefaultSettings]

NextValidate ==
  \/ \E c \in ValidateCommands :
       lifeCycleHooks[c]["preSubcommand"] = Null /\ Hook(c, "preSubcommand")
  \/ pc = "setup" /\ \E s \in SeqsUpTo(ValidateAlphabet, MaxArgv) : Parse(<<TokBuild>> \o s)
  \/ ParseSteps

SpecValidate == InitValidate /\ [][NextValidate]_vars

\* leaf processing of the current command runs in this step
LeafRuns ==
  /\ pc = "dispatch" /\ pc' # "dispatch"
  /\ ~(operands # <<>> /\ findCommand(cur, Head(operands)) # NoCommand)

\* a help flag is among the unknown tokens of the leaf
HelpFlagGiven == \E i \in 1..Len(frame.unknown) : frame.unknown[i] \in {TokH, TokHelp}

\* a mandatory option of the leaf or of one of its ancestors has no value
MandatoryUndefined ==
  \E c \in Elements(getCommandAndAncestors(cur)) : \E o \in Elements(options(c)) :
    o.mandatory /\ getOptionValue(store[c], attributeName(o)) = Undefined

\* the value of option o of command c is defined and its source is not default
GivenValue(c, o) ==
  /\ getOptionValue(store[c], attributeName(o)) # Undefined
  /\ getOptionValueSource(store[c], attributeName(o)) # "default"

\* two given options of the leaf or of one ancestor conflict, one of them
\* declaring the conflict with the other
ConflictGiven ==
  \E c \in Elements(getCommandAndAncestors(cur)) :
    \E a \in Elements(options(c)) : \E b \in Elements(options(c)) :
      /\ GivenValue(c, a) /\ GivenValue(c, b)
      /\ attributeName(b) \in a.conflictsWith

\* the process exits with this error and no hook or action has been started
RaisedAtLeaf(code) ==
  /\ pc' = "exited" /\ exit' = <<exitCodeOf(code), code>>
  /\ UNCHANGED <<log, actionCalls, todo, chained, processedArgs>>

\* C12: when leaf processing reaches the validation of mandatory options (no
\* help flag is among the unknown tokens) and a mandatory option of the leaf
\* or of an ancestor has no value, the process exits with
\* commander.missingMandatoryOptionValue and no preAction hook, action or
\* postAction hook runs, then or later.
C12_MandatoryChecked ==
  [][/\ (LeafRuns /\ ~HelpFlagGiven /\ MandatoryUndefined) =>
          RaisedAtLeaf("commander.missingMandatoryOptionValue")
     /\ pc = "exited" => UNCHANGED <<log, actionCalls>>]_vars

\* job is the leaf, the mandatory mode of its parent build has no value, and
\* the error was raised
C12_Witness ==
  /\ pc = "exited" /\ cur = "job"
  /\ exit = <<1, "commander.missingMandatoryOptionValue">>
  /\ getOptionValue(store["build"], KeyMode) = Undefined
  /\ \A i \in 1..Len(actionCalls) : FALSE

\* C13: at a leaf with a help flag among its unknown tokens the process
\* exits with code 0 and commander.helpDisplayed, also when a mandatory
\* option has no value or two given options conflict, and nothing runs.
C13_HelpFirst ==
  [][(LeafRuns /\ HelpFlagGiven) => RaisedAtLeaf("commander.helpDisplayed")]_vars

\* help was displayed at build although mode has no value and -s was given
\* with a level
C13_Witness ==
  /\ pc = "exited" /\ cur = "build" /\ exit = <<0, "commander.helpDisplayed">>
  /\ getOptionValue(store["build"], KeyMode) = Undefined
  /\ getOptionValueSource(store["build"], KeySilent) = "cli"
  /\ getOptionValueSource(store["build"], KeyLevel) = "cli"

\* C14: when leaf processing reaches the validation of conflicts (no help
\* flag, no mandatory option without value), commander.conflictingOption is
\* raised exactly when the leaf or an ancestor has two options of its own
\* with defined values whose sources are not default, one of which names the
\* other in conflictsWith.
C14_Conflicts ==
  [][(LeafRuns /\ ~HelpFlagGiven /\ ~MandatoryUndefined) =>
       /\ ConflictGiven => RaisedAtLeaf("commander.conflictingOption")
       /\ ~ConflictGiven => exit' = <<>> \/ exit'[2] # "commander.conflictingOption"]_vars

\* job is the leaf and its -q and -d were both given: debug declares the
\* conflict with quiet
C14_Witness ==
  /\ pc = "exited" /\ cur = "job" /\ exit = <<1, "commander.conflictingOption">>
  /\ getOptionValueSource(store["job"], KeyQuiet) = "cli"
  /\ getOptionValueSource(store["job"], KeyDebug) = "cli"

(***************************************************************************)
(* Unknown options: the program and its subcommand sub.                    *)
(***************************************************************************)
\* command lines over sub, -u and x, unknown options allowed or not on the
\* program and on sub, and at most one hook for each event on each of them
UnknownAlphabet == {TokSub, TokU, TokX}
UnknownCommands == {"prog", "sub"}

NextUnknown ==
  \/ \E c \in UnknownCommands : \E b \in BOOLEAN : AllowUnknownOption(c, b)
  \/ \E c \in UnknownCommands : \E e \in {"preAction", "postAction"} :
       lifeCycleHooks[c][e] = Null /\ Hook(c, e)
  \/ lifeCycleHooks["prog"]["preSubcommand"] = Null /\ Hook("prog", "preSubcommand")
  \/ pc = "setup" /\ \E argv \in SeqsUpTo(UnknownAlphabet, MaxArgv) : Parse(argv)
  \/ ParseSteps

SpecUnknown == InitHooks /\ [][NextUnknown]_vars

\* the command the command line leads to: sub when it is named first
UnknownLeaf == IF rawArgs # <<>> /\ Head(rawArgs) = TokSub THEN "sub" ELSE "prog"

\* C15 as stated: once a parse of a command line that holds the unknown
\* option -u has come to rest or the process has exited, the leaf the
\* command line names was reached (the parent raised nothing), and there
\* either unknown options are allowed, no error was raised and the action of
\* the leaf has run, or the process exited with commander.unknownOption.
C15_AsStated ==
  ((Quiescent \/ pc = "exited") /\ TokU \in Elements(rawArgs)) =>
    /\ cur = UnknownLeaf
    /\ IF settings[UnknownLeaf].allowUnknownOption
         THEN /\ exit = <<>> /\ result # "threw" /\ ~rejected
              /\ \E i \in 1..Len(actionCalls) : actionCalls[i][1] = UnknownLeaf
         ELSE exit = <<1, "commander.unknownOption">>

(***************************************************************************)
(* Command-arguments: the program (none registered), sub ([file]), leaf    *)
(* ([files...]) and job ([first] [rest...] with a default for rest).       *)
(***************************************************************************)
\* command lines that name one of the four commands and go on with x and y,
\* excess arguments allowed or not on the program and on sub, MODE in the
\* environment, at most one preSubcommand hook on each parent
ArgsAlphabet == {TokX, TokY}
ArgsPaths == {<<>>, <<TokSub>>, <<TokSub, TokLeaf>>, <<TokBuild, TokJob>>}
ArgsParents == {"prog", "sub", "build"}
ArgsCommands == {"prog", "sub"}

InitArgs ==
  /\ InitProgram
  /\ env = [x \in {"MODE"} |-> StrFast]
  /\ settings = [c \in Commands |-> DefaultSettings]

NextArgs ==
  \/ \E c \in ArgsCommands : \E b \in BOOLEAN : AllowExcessArguments(c, b)
  \/ \E c \in ArgsParents :
       lifeCycleHooks[c]["preSubcommand"] = Null /\ Hook(c, "preSubcommand")
  \/ pc = "setup" /\ \E path \in ArgsPaths : \E s \in SeqsUpTo(ArgsAlphabet, MaxArgv) :
       Parse(path \o s)
  \/ ParseSteps

SpecArgs == InitArgs /\ [][NextArgs]_vars

\* leaf processing of the current command reaches #processArguments: no
\* earlier check of the leaf raises an error
ArgumentsProcessed ==
  /\ LeafRuns /\ ~HelpFlagGiven /\ ~MandatoryUndefined /\ ~ConflictGiven
  /\ frame.unknown = <<>> \/ settings[cur].allowUnknownOption
  /\ \A k \in 1..Len(registeredArguments(cur)) :
       registeredArguments(cur)[k].required => k <= Len(cmdArgs[cur])

\* the current command has more args than registered arguments, the last of
\* which is not variadic
TooManyArgs ==
  LET ra == registeredArguments(cur)
  IN /\ Len(ra) = 0 \/ ~ra[Len(ra)].variadic
     /\ Len(cmdArgs[cur]) > Len(ra)

\* C16: when leaf processing reaches #processArguments, the process exits
\* with commander.excessArguments exactly when the last registered argument
\* is not variadic (or none is registered), there are more args than
\* registered arguments and allowExcessArguments is off; with it on no
\* error is raised.
C16_Excess ==
  [][ArgumentsProcessed =>
       /\ (TooManyArgs /\ ~settings[cur].allowExcessArguments)
            <=> RaisedAtLeaf("commander.excessArguments")
       /\ settings[cur].allowExcessArguments => exit' = <<>> /\ pc' = "chain"]_vars

\* sub, which takes one argument, was given two with excess arguments off
C16_Witness ==
  /\ pc = "exited" /\ cur = "sub" /\ exit = <<1, "commander.excessArguments">>
  /\ Len(cmdArgs["sub"]) = 2 /\ ~settings["sub"].allowExcessArguments

\* the args of the current command from slot k on, as a list of strings
ArgsFrom(k) ==
  VList([i \in 1..(IF k <= Len(cmdArgs[cur]) THEN Len(cmdArgs[cur]) - k + 1 ELSE 0) |->
           VStr(cmdArgs[cur][k + i - 1])])

\* C17 as stated: after #processArguments the value of a variadic argument
\* in slot k is the list of the args from k on, also when there is none and
\* whether or not the argument declares a default value.
C17_AsStated ==
  [][(ArgumentsProcessed /\ pc' = "chain") =>
       \A k \in 1..Len(registeredArguments(cur)) :
         registeredArguments(cur)[k].variadic => processedArgs'[cur][k] = ArgsFrom(k)]_vars

\* C17: after #processArguments the value of a variadic argument in slot k
\* is the list of the args from k on when there is an arg at k; when there
\* is none it is the declared default value, and the empty list when no
\* default is declared.
C17_Variadic ==
  [][(ArgumentsProcessed /\ pc' = "chain") =>
       \A k \in 1..Len(registeredArguments(cur)) :
         registeredArguments(cur)[k].variadic =>
           processedArgs'[cur][k] =
             IF k > Len(cmdArgs[cur]) /\ registeredArguments(cur)[k].defaultValue # Undefined
               THEN registeredArguments(cur)[k].defaultValue
               ELSE ArgsFrom(k)]_vars

\* job was given x alone: first is x and rest, for which there is no arg, is
\* its default value
C17_Witness ==
  /\ ProcessedLeaf("job") /\ cmdArgs["job"] = <<TokX>>
  /\ processedArgs["job"] = <<VStr(TokX), VList(<<VStr(StrAll)>>)>>

(***************************************************************************)
(* The variadic option -n, --numbers <n...> of the program.                *)
(***************************************************************************)
\* command lines over -n, x and y
VariadicAlphabet == {TokN, TokX, TokY}

NextVariadic ==
  \/ pc = "setup" /\ \E argv \in SeqsUpTo(VariadicAlphabet, MaxArgv) : Parse(argv)
  \/ ParseOptionsStep
  \/ ParseOptionsEnv
  \/ ParseOptionsImplied
  \/ SetArgs

SpecVariadic == InitHooks /\ [][NextVariadic]_vars

\* the values a command line over -n, x and y gives for -n, in token order:
\* the token after each -n, and the tokens other than -n that follow it
RECURSIVE GivenNumbers(_, _)
GivenNumbers(argv, active) ==
  IF argv = <<>> THEN <<>>
  ELSE IF Head(argv) = TokN
    THEN IF Len(argv) = 1 THEN <<>>
         ELSE <<VStr(argv[2])>> \o GivenNumbers(Tail(Tail(argv)), TRUE)
  ELSE IF active THEN <<VStr(Head(argv))>> \o GivenNumbers(Tail(argv), TRUE)
  ELSE GivenNumbers(Tail(argv), FALSE)

\* C18 as stated: once the token parser of a parse has stopped, the value of
\* the variadic option numbers is its declared default when the command
\* line gave no value for it, and otherwise the list of exactly the values
\* the command line gave, in token order.
C18_AsStated ==
  (pc \notin {"setup", "parseOptions"}) =>
    getOptionValue(store["prog"], KeyNumbers) =
      IF GivenNumbers(rawArgs, FALSE) = <<>> THEN OptNumbers.defaultValue
      ELSE VList(GivenNumbers(rawArgs, FALSE))

(***************************************************************************)
(* The recorded sources of option values.                                  *)
(***************************************************************************)
SpecSources == {"default", "config", "env", "cli", "implied"}

\* the sources recorded for the attributes of command c
RecordedSources(st) == {st.sources[key] : key \in DOMAIN st.sources}

\* C19 as stated: every attribute present in the recorded sources of a
\* command maps to one of default, config, env, cli and implied.
C19_AsStated == \A c \in Commands : RecordedSources(store[c]) \subseteq SpecSources

\* C19: after the registrations every recorded source is default, and a
\* step that records for an attribute a source other than default, config,
\* env, cli and implied is a call by the client of setOptionValue, which
\* records undefined, or of setOptionValueWithSource with such a source:
\* the registrations and the parses record none but those five.
C19_Sources ==
  /\ \A c \in Commands : RecordedSources(store[c]) \subseteq {"default"}
  /\ [][\A c \in Commands : \A key \in DOMAIN store'[c].sources :
          \/ store'[c].sources[key] \in SpecSources
          \/ key \in DOMAIN store[c].sources /\ store[c].sources[key] = store'[c].sources[key]
          \/ pc = "setup" /\ pc' = "setup"]_vars

\* port was stored by setOptionValue and records no source, -v was given on
\* the command line and records cli, and the parse of the options is over
C19_Witness ==
  /\ pc = "dispatch"
  /\ KeyPort \in DOMAIN store["prog"].sources
  /\ store["prog"].sources[KeyPort] = "undefined"
  /\ getOptionValueSource(store["prog"], KeyVerbose) = "cli"

(***************************************************************************)
(* Two programs with the same declarations: solo and twin.                 *)
(***************************************************************************)
\* solo parses a command line over -p, -v and x, with PORT and VERBOSE in
\* the environment or not; when its parse has ended, twin parses the same
\* command line in the same environment
TwiceAlphabet == {TokP, TokV, TokX}

\* the parse of command c has ended: it returned, threw or the process exited
ParseEnded(c) == cur = c /\ pc \in {"idle", "exited"} /\ chained = <<>> /\ running = {}

NextTwice ==
  \/ pc = "setup" /\ \E argv \in SeqsUpTo(TwiceAlphabet, MaxArgv) : ParseRoot("solo", argv)
  \/ ParseEnded("solo") /\ ParseRoot("twin", rawArgs)
  \/ ParseOptionsStep
  \/ ParseOptionsEnv
  \/ ParseOptionsImplied
  \/ SetArgs
  \/ ProcessLeaf
  \/ CollectHooks

SpecTwice == InitResolve /\ [][NextTwice]_vars

DualAlphabet == {TokColor, TokNoColor, TokFade, TokNoFade}
DualKeys == {KeyColor, KeyFade}
DualValues == {VBool(FALSE), VBool(TRUE), VStr(StrOff)}

NextDual ==
  \/ \E key \in DualKeys : \E v \in DualValues :
       SetOptionValueWithSourceOn("paint", key, v, "config")
  \/ pc = "setup" /\ \E argv \in SeqsUpTo(DualAlphabet, MaxArgv) : ParseRoot("paint", argv)
  \/ ParseOptionsStep
  \/ ParseOptionsEnv
  \/ ParseOptionsImplied
  \/ SetArgs

SpecDual == InitHooks /\ [][NextDual]_vars

\* the positive and the negative option of paint for an attribute
PositiveOf(key) ==
  CHOOSE o \in Elements(options("paint")) : ~o.negate /\ attributeName(o) = key
NegativeOf(key) ==
  CHOOSE o \in Elements(options("paint")) : o.negate /\ attributeName(o) = key

\* the stored value of the attribute is the one the negative option gives:
\* its preset, or false when it has none
NegativeIsSource(key) ==
  getOptionValue(store["paint"], key) =
    IF NegativeOf(key).presetArg # Undefined THEN NegativeOf(key).presetArg ELSE VBool(FALSE)

\* the implied pass of paint runs
DualImpliedPassRuns == pc = "implied" /\ pc' = "args" /\ cur = "paint"

\* the pass stores the implied value of option o, which was not there before
ImpliedOf(o) ==
  /\ o.implied[1][1] \notin DOMAIN store["paint"].values
  /\ getOptionValue(store'["paint"], o.implied[1][1]) = o.implied[1][2]
  /\ getOptionValueSource(store'["paint"], o.implied[1][1]) = "implied"

\* the pass leaves the attribute option o implies absent
NotImpliedOf(o) == o.implied[1][1] \notin DOMAIN store'["paint"].values

\* C21: when the implied pass runs on a command with a positive and a
\* negative option for one attribute whose value is defined and comes from a
\* source other than default and implied, the implied values of the negative
\* option are applied, and those of the positive one are not, if the value is
\* the negative option's preset (false when it has none); otherwise those of
\* the positive option are applied and those of the negative one are not.
\* With no such value neither is applied.
C21_DualSource ==
  [][DualImpliedPassRuns =>
       \A key \in DualKeys :
         IF getOptionValue(store["paint"], key) # Undefined
              /\ getOptionValueSource(store["paint"], key) \notin {"default", "implied"}
           THEN IF NegativeIsSource(key)
                  THEN ImpliedOf(NegativeOf(key)) /\ NotImpliedOf(PositiveOf(key))
                  ELSE ImpliedOf(PositiveOf(key)) /\ NotImpliedOf(NegativeOf(key))
           ELSE NotImpliedOf(PositiveOf(key)) /\ NotImpliedOf(NegativeOf(key))]_vars

\* --no-fade gave fade its preset "off", so hard is implied and soft is not;
\* color holds false from a config, so plain is implied and warm is not
C21_Witness ==
  /\ pc = "args" /\ cur = "paint"
  /\ getOptionValue(store["paint"], KeyFade) = VStr(StrOff)
  /\ getOptionValueSource(store["paint"], KeyFade) = "cli"
  /\ getOptionValueSource(store["paint"], KeyHard) = "implied"
  /\ KeySoft \notin DOMAIN store["paint"].values
  /\ getOptionValue(store["paint"], KeyColor) = VBool(FALSE)
  /\ getOptionValueSource(store["paint"], KeyColor) = "config"
  /\ getOptionValueSource(store["paint"], KeyPlain) = "implied"
  /\ KeyWarm \notin DOMAIN store["paint"].values


(***************************************************************************)
(* Claims about the exit override, the help command and executable         *)
(* subcommands, on the tree of paint.                                      *)
(***************************************************************************)
OverrideAlphabet == {TokTint, TokWorker, TokHelpCmd, TokH, TokVee}

\* the exit callbacks of paint and of tint, a preSubcommand hook on paint,
\* one parse of paint, and the close or error of the child process
NextOverride ==
  \/ \E fn \in {"default", "throws", "returns"} : ExitOverride("paint", fn)
  \/ ExitOverride("tint", "default")
  \/ lifeCycleHooks["paint"]["preSubcommand"] = Null /\ Hook("paint", "preSubcommand")
  \/ pc = "setup" /\ \E argv \in SeqsUpTo(OverrideAlphabet, MaxArgv) : ParseRoot("paint", argv)
  \/ ParseOptionsStep
  \/ ParseOptionsEnv
  \/ ParseOptionsImplied
  \/ SetArgs
  \/ DispatchSubcommand
  \/ DispatchHelpCommand
  \/ ProcessParent
  \/ ProcessLeaf
  \/ CollectHooks
  \/ ChainOrCall
  \/ ExecuteSubCommand
  \/ Return
  \/ \E s \in running : Complete(s)
  \/ RunChained
  \/ \E s \in running : ProcClose(s, 0)
  \/ \E s \in running : ProcError(s)

SpecOverride == InitHooks /\ [][NextOverride]_vars

\* the terminal condition the next step of the parse meets: command c calls
\* #exit(exitCode, code).  The version flag at tint, the help flag at tint,
\* an unknown option at paint, and help tint.
Terminal(c, exitCode, code) ==
  \/ /\ c = "tint" /\ exitCode = 0 /\ code = "commander.version"
     /\ pc = "parseOptions" /\ cur = "tint"
     /\ frame.args # <<>> /\ Head(frame.args) = TokVee
  \/ /\ c = "tint" /\ exitCode = 0 /\ code = "commander.helpDisplayed"
     /\ pc = "dispatch" /\ cur = "tint"
     /\ \E i \in 1..Len(frame.unknown) : frame.unknown[i] = TokH
  \/ /\ c = "paint" /\ exitCode = 1 /\ code = "commander.unknownOption"
     /\ pc = "dispatch" /\ cur = "paint" /\ operands = <<>>
     /\ frame.unknown # <<>> /\ \A i \in 1..Len(frame.unknown) : frame.unknown[i] # TokH
  \/ /\ c = "tint" /\ exitCode = 0 /\ code = "commander.help"
     /\ pc = "dispatch" /\ cur = "paint"
     /\ Len(operands) > 1 /\ operands[1] = TokHelpCmd /\ operands[2] = TokTint

TerminalCases ==
  {<<"tint", 0, "commander.version">>, <<"tint", 0, "commander.helpDisplayed">>,
   <<"paint", 1, "commander.unknownOption">>, <<"tint", 0, "commander.help">>}

\* the structured error reaches the caller of parse, and process.exit is not
\* called
ThrownToCaller(c, exitCode, code) ==
  /\ log' = Append(log, <<"throw", Step("error", code, c, exitCode, NoCommand)>>)
  /\ IF inThen THEN rejected' ELSE result' = "threw"
  /\ exit' = <<>>
  /\ pc' = "idle"

\* the child process of an executable subcommand of c closes in this step
Closes(c) ==
  \E s \in running : s.kind = "spawn" /\ s.cmd = c /\ running' = running \ {s}

\* C22 as stated: with an exit override installed on the command, whatever
\* the callback does, every terminal condition throws the structured error to
\* the caller and process.exit is never invoked; the close of the child
\* process is swallowed by the default override.
C22_AsStated ==
  [][/\ \A t \in TerminalCases :
          Terminal(t[1], t[2], t[3]) /\ settings[t[1]].exitCallback # "none"
            => ThrownToCaller(t[1], t[2], t[3])
     /\ Closes("paint") /\ settings["paint"].exitCallback = "default"
          => UNCHANGED <<log, exit, result, rejected>>]_vars

\* C22: with the default exit override, or a callback that throws the error
\* it is given, every terminal condition (error, help, version) throws the
\* structured error to the caller and process.exit is not invoked; after a
\* callback that returns, and without a callback, process.exit is invoked
\* with the exit code.  The close of the child process of an executable
\* subcommand is swallowed by the default override: nothing is thrown and
\* process.exit is not invoked.
C22_Override ==
  [][/\ \A t \in TerminalCases :
          Terminal(t[1], t[2], t[3])
            => IF settings[t[1]].exitCallback \in {"default", "throws"}
                 THEN ThrownToCaller(t[1], t[2], t[3])
                 ELSE exit' = <<t[2], t[3]>> /\ UNCHANGED <<log, result, rejected>>
     /\ Closes("paint") /\ settings["paint"].exitCallback = "default"
          => UNCHANGED <<log, exit, result, rejected>>]_vars

\* after the preSubcommand hook of paint, the default override of tint threw
\* the version error to the caller of parse and process.exit was not called
C22_Witness ==
  /\ settings["tint"].exitCallback = "default"
  /\ rawArgs = <<TokTint, TokVee>>
  /\ result = "threw" /\ exit = <<>> /\ pc = "idle"
  /\ log # <<>>
  /\ log[Len(log)] = <<"throw", Step("error", "commander.version", "tint", 0, NoCommand)>>


\* #parseCommand of paint is about to dispatch the help command
HelpCommandRuns ==
  pc = "dispatch" /\ cur = "paint" /\ operands # <<>> /\ operands[1] = TokHelpCmd

\* the parse ends in #exit(exitCode, code) of command c: the error is thrown
\* to the caller by an override that throws, and process.exit is called
\* otherwise
EndsWith(c, exitCode, code) ==
  /\ IF settings[c].exitCallback \in {"default", "throws"}
       THEN ThrownToCaller(c, exitCode, code)
       ELSE exit' = <<exitCode, code>> /\ pc' = "exited" /\ UNCHANGED log
  /\ UNCHANGED <<actionCalls, running, chained>>

MaxExecArgv == 2

\* what follows the flag in the tokens of execArgv, with the suffix the
\* rewritten token is to have: bare, =host, =port, =host:port, a port of 0,
\* and a value with two colons, which is none of the forms
InspectSuffixes ==
  { <<<<>>, <<"=", "1", "2", "7", ".", "0", ".", "0", ".", "1", ":", "9", "2", "3", "0">>>>,
    <<<<"=", "h">>, <<"=", "h", ":", "9", "2", "3", "0">>>>,
    <<<<"=", "0">>, <<"=", "0">>>>,
    <<<<"=", "9">>, <<"=", "1", "2", "7", ".", "0", ".", "0", ".", "1", ":", "1", "0">>>>,
    <<<<"=", "h", ":", "0">>, <<"=", "h", ":", "0">>>>,
    <<<<"=", "h", ":", "9", "9">>, <<"=", "h", ":", "1", "0", "0">>>>,
    <<<<"=", "a", ":", "b", ":", "9">>, <<"=", "a", ":", "b", ":", "9">>>> }

OtherExecArgs == {InspectFlag \o <<"x", "=", "9">>, TokX}

InspectTokens ==
  {f \o x[1] : f \in {InspectFlag, InspectBrkFlag, InspectPortFlag}, x \in InspectSuffixes}
    \cup OtherExecArgs

InitInspect ==
  /\ InitObjects
  /\ execArgv \in SeqsUpTo(InspectTokens, MaxExecArgv)
  /\ env = NoEnv
  /\ settings = [c \in Commands |-> DefaultSettings]

NextInspect ==
  \/ lifeCycleHooks["paint"]["preSubcommand"] = Null /\ Hook("paint", "preSubcommand")
  \/ pc = "setup" /\ ParseRoot("paint", <<TokWorker>>)
  \/ ParseOptionsStep
  \/ ParseOptionsEnv
  \/ ParseOptionsImplied
  \/ SetArgs
  \/ DispatchSubcommand
  \/ CollectHooks
  \/ ChainOrCall
  \/ ExecuteSubCommand
  \/ Return
  \/ \E s \in running : Complete(s)
  \/ \E s \in running : ProcClose(s, 0)

SpecInspect == InitInspect /\ [][NextInspect]_vars

\* the child process was launched with node: the rewritten execArgv, then
\* the file (worker is given no arguments)
LaunchedWithNode == spawnArgs # <<>> /\ spawnArgs[Len(spawnArgs)] = ExecutableFile

\* the token the rewrite is to make of arg, with the bare form of the flags
\* in bareFlags rewritten to the default host and port plus one
Rewritten(arg, bareFlags) ==
  IF \E f \in {InspectFlag, InspectBrkFlag, InspectPortFlag} :
       \E x \in InspectSuffixes : arg = f \o x[1] /\ (x[1] = <<>> => f \in bareFlags)
    THEN LET f == CHOOSE f \in {InspectFlag, InspectBrkFlag, InspectPortFlag} :
                    \E x \in InspectSuffixes : arg = f \o x[1]
             x == CHOOSE x \in InspectSuffixes : arg = f \o x[1]
         IN f \o x[2]
    ELSE arg

\* C24 as stated: the rewrite keeps the length, and every --inspect,
\* --inspect-brk or --inspect-port token, bare or with =host, =port or
\* =host:port, has its port incremented by one with its host preserved
\* (defaults 127.0.0.1 and 9229), but for a port of 0; every other token is
\* unchanged.
C24_AsStated ==
  LaunchedWithNode =>
    /\ Len(spawnArgs) = Len(execArgv) + 1
    /\ \A i \in 1..Len(execArgv) :
         spawnArgs[i] = Rewritten(execArgv[i], {InspectFlag, InspectBrkFlag, InspectPortFlag})

\* C24: the rewrite keeps the length, and every --inspect or --inspect-brk
\* token, bare or with =host, =port or =host:port, and every --inspect-port
\* token with =host, =port or =host:port, has its port incremented by one with
\* its host preserved (defaults 127.0.0.1 and 9229), but for a port of 0;
\* every other token, a bare --inspect-port among them, is unchanged.
C24_Rewrite ==
  LaunchedWithNode =>
    /\ Len(spawnArgs) = Len(execArgv) + 1
    /\ \A i \in 1..Len(execArgv) :
         spawnArgs[i] = Rewritten(execArgv[i], {InspectFlag, InspectBrkFlag})

\* --inspect-brk=h:99 and --inspect-port=0 were handed to the child process
\* as --inspect-brk=h:100 and --inspect-port=0
C24_Witness ==
  /\ execArgv = <<InspectBrkFlag \o <<"=", "h", ":", "9", "9">>, InspectPortFlag \o <<"=", "0">>>>
  /\ spawnArgs = <<InspectBrkFlag \o <<"=", "h", ":", "1", "0", "0">>, InspectPortFlag \o <<"=", "0">>, ExecutableFile>>


(***************************************************************************)
(* Declarations: the calls that register arguments, options and            *)
(* subcommands on a command under declaration.  draft.threw tells whether  *)
(* the last call threw, draft.calls counts the calls.                      *)
(***************************************************************************)
MaxCalls == 3

\* new Argument(name): required and variadic as the constructor reads them
\* off the name
createArgument(usage) ==
  LET bracketed == usage[1] \in {"<", "["}
      n == IF bracketed THEN SubSeq(usage, 2, Len(usage) - 1) ELSE usage
  IN [required |-> usage[1] # "[",
      variadic |-> Len(n) > 3 /\ SubSeq(n, Len(n) - 2, Len(n)) = <<".", ".", ".">>,
      defaultValue |-> Undefined, hasParseArg |-> FALSE]

\* a registration that does not look at the argument before
addArgument_unchecked(registered, arg) ==
  IF arg.required /\ arg.defaultValue # Undefined /\ ~arg.hasParseArg
    THEN [threw |-> TRUE, registeredArguments |-> registered]
    ELSE [threw |-> FALSE, registeredArguments |-> Append(registered, arg)]

\* addArgument(arg) on the list registered: whether it throws, and the list
addArgument(registered, arg) ==
  IF registered # <<>> /\ registered[Len(registered)].variadic
    THEN [threw |-> TRUE, registeredArguments |-> registered]
  ELSE IF arg.required /\ arg.defaultValue # Undefined /\ ~arg.hasParseArg
    THEN [threw |-> TRUE, registeredArguments |-> registered]
  ELSE [threw |-> FALSE, registeredArguments |-> Append(registered, arg)]

\* argument(name, description, fn, defaultValue): the third parameter is the
\* default value unless it is a function
argumentOf(usage, hasFn, defaultValue) ==
  [createArgument(usage) EXCEPT !.defaultValue = defaultValue, !.hasParseArg = hasFn]

\* the loop of arguments(names) from the k-th name on: it ends at the first
\* argument() that throws
RECURSIVE argumentsFrom(_, _, _)
argumentsFrom(registered, names, k) ==
  IF k > Len(names) THEN [threw |-> FALSE, registeredArguments |-> registered]
  ELSE LET r == addArgument(registered, createArgument(names[k]))
       IN IF r.threw THEN r ELSE argumentsFrom(r.registeredArguments, names, k + 1)

\* the call is made on the draft and came to r
Declared(r) ==
  /\ pc = "setup"
  /\ draft.calls < MaxCalls
  /\ draft' = [draft EXCEPT !.registeredArguments = r.registeredArguments,
                            !.threw = r.threw, !.calls = @ + 1]
  /\ UNCHANGED fixtureVars

AddArgument(arg) == Declared(addArgument(draft.registeredArguments, arg))

Argument(usage, hasFn, defaultValue) ==
  Declared(addArgument(draft.registeredArguments, argumentOf(usage, hasFn, defaultValue)))

\* arguments(names): names.trim().split(/ +/) is never empty
Arguments(names) == Declared(argumentsFrom(draft.registeredArguments, names, 1))

\* the usages <a>, [b...], c... and [...]
Usages ==
  { <<"<", "a", ">">>, <<"[", "b", ".", ".", ".", "]">>, <<"c", ".", ".", ".">>,
    <<"[", ".", ".", ".", "]">> }

NextArguments ==
  \/ \E usage \in Usages : AddArgument(createArgument(usage))
  \/ \E usage \in Usages : \E d \in {Undefined, VStr(StrAll)} : Argument(usage, FALSE, d)
  \/ \E usage \in Usages : Argument(usage, TRUE, VStr(StrAll))
  \/ \E names \in SeqsUpTo(Usages, 2) \ {<<>>} : Arguments(names)

SpecArguments == InitHooks /\ [][NextArguments]_vars

\* the last registered argument is variadic
LastIsVariadic(registered) ==
  registered # <<>> /\ registered[Len(registered)].variadic

\* C25: whatever arguments are registered, with calls that throw among them,
\* registeredArguments holds at most one variadic argument, and it is the
\* last; a call that registers after a variadic argument throws and leaves
\* registeredArguments as it was.
C25_VariadicLast ==
  [][/\ \A i \in 1..(Len(draft'.registeredArguments) - 1) :
          ~draft'.registeredArguments[i].variadic
     /\ LastIsVariadic(draft.registeredArguments) /\ draft'.calls = draft.calls + 1
          => draft'.threw /\ draft'.registeredArguments = draft.registeredArguments]_vars

\* <a> and [b...] are registered, and a third registration threw
C25_Witness ==
  /\ draft.calls = 3 /\ draft.threw
  /\ Len(draft.registeredArguments) = 2
  /\ ~draft.registeredArguments[1].variadic
  /\ draft.registeredArguments[2].variadic


(***************************************************************************)
(* Declarations of subcommands and aliases.  The draft is a program named  *)
(* p; draft.commands are its subcommands, draft.loose is a command made    *)
(* with new Command(name) and not yet added.  #findCommand reads the name  *)
(* and the aliases of a command as name() and aliases() return them.       *)
(***************************************************************************)
\* knownBy(cmd): [cmd.name()].concat(cmd.aliases())
knownBy(cmd) == <<cmd.name>> \o cmd.aliases

\* #findCommand(name) among the commands cs: the index of the first command
\* known by that name, 0 for undefined
findChild(cs, n) ==
  LET known(i) == \E k \in 1..Len(knownBy(cs[i])) : knownBy(cs[i])[k] = n
  IN IF n # "" /\ \E i \in 1..Len(cs) : known(i)
       THEN CHOOSE i \in 1..Len(cs) : known(i) /\ \A j \in 1..(i - 1) : ~known(j)
       ELSE 0

\* #registerCommand(command) throws: a name the command is known by is used
registerCommandThrows(cs, cmd) ==
  \E k \in 1..Len(knownBy(cmd)) : findChild(cs, knownBy(cmd)[k]) # 0

\* the call came to draft d: it is counted and remembered
Called(d, op, index, flag) ==
  /\ pc = "setup"
  /\ draft.calls < MaxCalls
  /\ draft' = [d EXCEPT !.calls = draft.calls + 1,
                        !.last = [op |-> op, index |-> index, flag |-> flag]]
  /\ UNCHANGED fixtureVars

\* enablePositionalOptions(positional) on the program
DraftEnablePositionalOptions(positional) ==
  Called([draft EXCEPT !.enablePositionalOptions = positional, !.threw = FALSE],
         "enablePositionalOptions", 0, positional)

\* command(name) and command(name, description) on the program: the new
\* command is registered, then inherits the settings of the program
Command(n, executable) ==
  LET cmd == [name |-> n, aliases |-> <<>>, executableHandler |-> executable,
              passThroughOptions |-> FALSE,
              enablePositionalOptions |-> draft.enablePositionalOptions]
  IN Called(IF registerCommandThrows(draft.commands, cmd)
              THEN [draft EXCEPT !.threw = TRUE]
              ELSE [draft EXCEPT !.commands = Append(@, cmd), !.threw = FALSE],
            "command", 0, executable)

\* new Command(name): a command of its own, to be added later
NewCommand(n) ==
  /\ ~draft.loose.made
  /\ Called([draft EXCEPT !.loose = [made |-> TRUE, name |-> n, aliases |-> <<>>,
                                    passThroughOptions |-> FALSE],
                         !.threw = FALSE],
            "new", 0, FALSE)

\* addCommand(cmd) on the program with the loose command: the name is
\* required, the command is registered and gets its parent, and then
\* #checkForBrokenPassThrough() is called on it
AddCommand ==
  /\ draft.loose.made
  /\ LET l == draft.loose
         cmd == [name |-> l.name, aliases |-> l.aliases, executableHandler |-> FALSE,
                 passThroughOptions |-> l.passThroughOptions,
                 enablePositionalOptions |-> FALSE]
     IN Called(IF l.name = "" \/ registerCommandThrows(draft.commands, cmd)
                 THEN [draft EXCEPT !.threw = TRUE]
                 ELSE [draft EXCEPT
                         !.commands = Append(@, cmd),
                         !.loose = NewDraft.loose,
                         !.threw = brokenPassThrough(TRUE, l.passThroughOptions,
                                                     draft.enablePositionalOptions)],
               "addCommand", 0, l.passThroughOptions)

\* passThroughOptions(passThrough) on the i-th subcommand: the flag is
\* assigned, then checked
ChildPassThroughOptions(i, passThrough) ==
  /\ i \in 1..Len(draft.commands)
  /\ Called([draft EXCEPT !.commands[i].passThroughOptions = passThrough,
                         !.threw = brokenPassThrough(TRUE, passThrough,
                                                     draft.enablePositionalOptions)],
            "passThroughOptions", i, passThrough)

\* passThroughOptions(passThrough) on the loose command, which has no parent
LoosePassThroughOptions(passThrough) ==
  /\ draft.loose.made
  /\ Called([draft EXCEPT !.loose.passThroughOptions = passThrough,
                         !.threw = brokenPassThrough(FALSE, passThrough, FALSE)],
            "passThroughOptions", 0, passThrough)

PassThroughNames == {"a", "b"}

NextPassThrough ==
  \/ \E b \in BOOLEAN : DraftEnablePositionalOptions(b)
  \/ \E n \in PassThroughNames : Command(n, FALSE)
  \/ \E n \in PassThroughNames : NewCommand(n)
  \/ AddCommand
  \/ \E i \in 1..2 : \E b \in BOOLEAN : ChildPassThroughOptions(i, b)
  \/ \E b \in BOOLEAN : LoosePassThroughOptions(b)

SpecPassThrough == InitHooks /\ [][NextPassThrough]_vars

\* C26: passThroughOptions is turned on for a command whose parent has not
\* enabled positional options, or a command that has passThroughOptions on is
\* added with addCommand to such a parent: the call throws.
C26_BrokenPassThrough ==
  [][draft'.calls = draft.calls + 1 /\ ~draft.enablePositionalOptions =>
       /\ draft'.last.op = "passThroughOptions" /\ draft'.last.index > 0
            /\ draft'.last.flag => draft'.threw
       /\ draft'.last.op = "addCommand" /\ draft.loose.name # ""
            /\ draft.loose.passThroughOptions
            /\ findChild(draft.commands, draft.loose.name) = 0 => draft'.threw]_vars

\* a command with passThroughOptions on was added to a program without
\* positional options, and the call threw
C26_Witness ==
  /\ draft.last.op = "addCommand" /\ draft.threw
  /\ ~draft.enablePositionalOptions
  /\ Len(draft.commands) = 1 /\ draft.commands[1].passThroughOptions


\* alias(alias) called on a command this with subcommands cs, name n, aliases
\* as and siblings (the commands of its parent, <<>> without parent): the
\* alias goes to the last subcommand if that is executable, else to this;
\* the siblings of this are searched for the alias.  Returns whether the
\* call throws and the index into cs of the command that got the alias, 0
\* for this.
aliasTarget(cs, n, siblings, alias) ==
  LET toLast == cs # <<>> /\ cs[Len(cs)].executableHandler
      targetName == IF toLast THEN cs[Len(cs)].name ELSE n
  IN [threw |-> alias = targetName \/ findChild(siblings, alias) # 0,
      index |-> IF toLast THEN Len(cs) ELSE 0]

\* alias(alias) on the program, which has no parent
Alias(alias) ==
  LET r == aliasTarget(draft.commands, draft.name, <<>>, alias)
  IN Called(IF r.threw THEN [draft EXCEPT !.threw = TRUE]
            ELSE IF r.index = 0
              THEN [draft EXCEPT !.aliases = Append(@, alias), !.threw = FALSE]
            ELSE [draft EXCEPT !.commands[r.index].aliases = Append(@, alias),
                               !.threw = FALSE],
            "alias", 0, FALSE)

\* alias(alias) on the i-th subcommand, which has no subcommands
ChildAlias(i, alias) ==
  /\ i \in 1..Len(draft.commands)
  /\ LET r == aliasTarget(<<>>, draft.commands[i].name, draft.commands, alias)
     IN Called(IF r.threw THEN [draft EXCEPT !.threw = TRUE]
               ELSE [draft EXCEPT !.commands[i].aliases = Append(@, alias),
                                  !.threw = FALSE],
               "alias", i, FALSE)

\* the loop of aliases(aliases) on the i-th subcommand from the k-th alias
\* on: it ends at the first alias() that throws
RECURSIVE childAliasesFrom(_, _, _, _)
childAliasesFrom(d, i, as, k) ==
  IF k > Len(as) THEN [d EXCEPT !.threw = FALSE]
  ELSE LET r == aliasTarget(<<>>, d.commands[i].name, d.commands, as[k])
       IN IF r.threw THEN [d EXCEPT !.threw = TRUE]
          ELSE childAliasesFrom([d EXCEPT !.commands[i].aliases = Append(@, as[k])],
                                i, as, k + 1)

\* aliases(aliases) on the i-th subcommand
ChildAliases(i, as) ==
  /\ i \in 1..Len(draft.commands)
  /\ Called(childAliasesFrom(draft, i, as, 1), "aliases", i, FALSE)

\* alias(alias) on the loose command, which has no parent and no subcommands
LooseAlias(alias) ==
  /\ draft.loose.made
  /\ LET r == aliasTarget(<<>>, draft.loose.name, <<>>, alias)
     IN Called(IF r.threw THEN [draft EXCEPT !.threw = TRUE]
               ELSE [draft EXCEPT !.loose.aliases = Append(@, alias), !.threw = FALSE],
               "alias", 0, TRUE)

CommandNames == {"a", "b"}

NextCommands ==
  \/ \E n \in CommandNames : \E executable \in BOOLEAN : Command(n, executable)
  \/ \E n \in CommandNames : NewCommand(n)
  \/ AddCommand
  \/ \E n \in CommandNames : Alias(n)
  \/ \E i \in 1..2 : \E n \in CommandNames : ChildAlias(i, n)
  \/ \E i \in 1..2 : ChildAliases(i, <<"a", "b">>)
  \/ \E n \in CommandNames : LooseAlias(n)

SpecCommands == InitHooks /\ [][NextCommands]_vars

\* C27 as stated: after any calls of command, addCommand, alias and aliases
\* that returned, no name or alias of a subcommand is a name or alias of
\* another subcommand of the same parent, and no command has an alias that
\* is its own name, the aliases given to an executable subcommand through
\* alias() of its parent included.
C27_AsStated ==
  /\ \A i, j \in 1..Len(draft.commands) :
       i # j => Elements(knownBy(draft.commands[i]))
                  \cap Elements(knownBy(draft.commands[j])) = {}
  /\ \A i \in 1..Len(draft.commands) :
       draft.commands[i].name \notin Elements(draft.commands[i].aliases)
  /\ draft.name \notin Elements(draft.aliases)
  /\ draft.loose.made => draft.loose.name \notin Elements(draft.loose.aliases)


(***************************************************************************)
(* Registration of options on the program under declaration.               *)
(***************************************************************************)
\* _findOption(arg) on the options os: the index of the first match, or 0
findOptionIn(os, arg) ==
  IF \E i \in 1..Len(os) : is(os[i], arg)
    THEN CHOOSE i \in 1..Len(os) : is(os[i], arg) /\ \A j \in 1..(i - 1) : ~is(os[j], arg)
    ELSE 0

\* a registration that looks for the long flag only
registerOptionThrows_longOnly(os, o) == o.long # NoFlag /\ findOptionIn(os, o.long) # 0

\* #registerOption(option) throws: its short or its long flag is in use
registerOptionThrows(os, o) ==
  \/ o.short # NoFlag /\ findOptionIn(os, o.short) # 0
  \/ o.long # NoFlag /\ findOptionIn(os, o.long) # 0

\* addOption's storing of the default value of o, os being the options
\* after o was registered
defaultStored(os, optionValues, o) ==
  LET positiveLongFlag == <<"-", "-">> \o Slice(o.long, 5)
  IN IF o.negate
       THEN IF findOptionIn(os, positiveLongFlag) = 0
              THEN setOptionValueWithSource(optionValues, attributeName(o),
                     IF o.defaultValue = Undefined THEN VBool(TRUE) ELSE o.defaultValue,
                     "default")
              ELSE optionValues
       ELSE IF o.defaultValue # Undefined
              THEN setOptionValueWithSource(optionValues, attributeName(o), o.defaultValue, "default")
              ELSE optionValues

\* the options that option(), requiredOption() and addOption() are given:
\* -p, --port <n> (default 80); -v, --verbose; -p, --mode <m> (default 9000,
\* mandatory); -q, --verbose (default cfg); --no-color; --color; -p, --verbose
OptionPool ==
  << OptPort,
     OptVerbose,
     [OptPort EXCEPT !.long = TokMode, !.defaultValue = VStr(Str9000), !.mandatory = TRUE],
     [OptVerbose EXCEPT !.short = TokQ, !.defaultValue = VStr(StrCfg)],
     OptNoColor,
     OptColor,
     [OptPort EXCEPT !.long = TokVerbose] >>

\* the options version() creates from its flags: -V, --version (the flags by
\* default) and -v, --version
VersionPool == << OptVersion, [OptVersion EXCEPT !.short = TokV] >>

\* addOption(option) with the k-th option of the pool; option() and
\* requiredOption() create the option and call addOption
AddOption(k) ==
  LET o == OptionPool[k]
      os == Append(draft.options, o)
  IN /\ k \in 1..Len(OptionPool)
     /\ Called(IF registerOptionThrows(draft.options, o)
                 THEN [draft EXCEPT !.threw = TRUE]
                 ELSE [draft EXCEPT !.threw = FALSE, !.options = os,
                         !.optionValues = defaultStored(os, @, o)],
               "addOption", k, FALSE)

\* version(str, flags) with the k-th flags: the option is registered, no
\* default is stored
Version(k) ==
  LET o == VersionPool[k]
  IN /\ k \in 1..Len(VersionPool)
     /\ Called(IF registerOptionThrows(draft.options, o)
                 THEN [draft EXCEPT !.threw = TRUE]
                 ELSE [draft EXCEPT !.threw = FALSE, !.options = Append(@, o)],
               "version", k, FALSE)

NextOptions ==
  \/ \E k \in 1..Len(OptionPool) : AddOption(k)
  \/ \E k \in 1..Len(VersionPool) : Version(k)

SpecOptions == InitHooks /\ [][NextOptions]_vars

\* the option the last registration was given
LastOption(d) ==
  IF d.last.op = "version" THEN VersionPool[d.last.index] ELSE OptionPool[d.last.index]

\* a flag of o is a flag of an option of os
FlagInUse(os, o) ==
  \E i \in 1..Len(os) :
    \/ o.short # NoFlag /\ os[i].short = o.short
    \/ o.long # NoFlag /\ os[i].long = o.long

\* C28: after every registration of an option (option, requiredOption,
\* addOption, version) no two options of the command share a short flag or
\* a long flag, and a registration whose short or long flag is in use throws
\* and leaves the options, the option values and their sources as they were.
C28_UniqueFlags ==
  [][draft'.calls = draft.calls + 1 /\ draft'.last.op \in {"addOption", "version"} =>
       /\ \A i, j \in 1..Len(draft'.options) :
            i # j => ~FlagInUse(<<draft'.options[i]>>, draft'.options[j])
       /\ FlagInUse(draft.options, LastOption(draft')) =>
            /\ draft'.threw
            /\ draft'.options = draft.options
            /\ draft'.optionValues = draft.optionValues]_vars

\* -p, --mode <m> with default 9000 was refused after -p, --port <n>: mode
\* has no value
C28_Witness ==
  /\ draft.last = [op |-> "addOption", index |-> 3, flag |-> FALSE]
  /\ draft.threw
  /\ draft.options = <<OptPort>>
  /\ DOMAIN draft.optionValues.values = {KeyPort}


(***************************************************************************)
(* The frame of the implied pass: the program, whose --verbose implies     *)
(* port.                                                                   *)
(***************************************************************************)
\* the implied pass of the program runs
ImpliedPassOfProgram == pc = "implied" /\ pc' = "args" /\ cur = "prog"

\* --verbose holds a value from a source other than default and implied
VerboseImplies ==
  /\ getOptionValue(store["prog"], KeyVerbose) # Undefined
  /\ getOptionValueSource(store["prog"], KeyVerbose) \notin {"default", "implied"}

\* the attributes of the program that no option implies
NotImpliedKeys == {KeyVerbose, KeyNumbers}

\* the pass stores the value --verbose implies for port
PortImplied ==
  /\ getOptionValue(store'["prog"], KeyPort) = VStr(Str1)
  /\ getOptionValueSource(store'["prog"], KeyPort) = "implied"

LiteralMet(dest) ==
  /\ pc = "parseOptions" /\ frame.args # <<>> /\ Head(frame.args) = DashDash
  /\ frame.dest = dest

\* C30 as stated: met while routing to unknown, -- is pushed to unknown and
\* the remaining tokens to operands, and the parser stops; met while routing
\* to operands, -- is dropped and the remaining tokens go to operands.
C30_AsStated ==
  [][/\ LiteralMet("unknown") =>
          /\ frame'.unknown = Append(frame.unknown, DashDash)
          /\ frame'.operands = frame.operands \o Tail(frame.args)
          /\ frame'.args = <<>> /\ pc' = "env"
     /\ LiteralMet("operands") =>
          /\ frame'.unknown = frame.unknown
          /\ frame'.operands = frame.operands \o Tail(frame.args)
          /\ frame'.args = <<>> /\ pc' = "env"]_vars

\* C30 amended: met while routing to unknown, -- and the remaining tokens
\* are pushed to unknown, operands is left alone and the parser stops; met
\* while routing to operands, -- is dropped and the remaining tokens go to
\* operands.
C30_LiteralRouting ==
  [][/\ LiteralMet("unknown") =>
          /\ frame'.unknown = Append(frame.unknown, DashDash) \o Tail(frame.args)
          /\ frame'.operands = frame.operands
          /\ frame'.args = <<>> /\ pc' = "env"
     /\ LiteralMet("operands") =>
          /\ frame'.unknown = frame.unknown
          /\ frame'.operands = frame.operands \o Tail(frame.args)
          /\ frame'.args = <<>> /\ pc' = "env"]_vars

\* -u -- x was parsed: --, and x after it, are in unknown
C30_Witness ==
  /\ pc = "dispatch" /\ rawArgs = <<TokU, DashDash, TokX>>
  /\ frame.unknown = <<TokU, DashDash, TokX>>
  /\ frame.operands = <<>>

(***************************************************************************)
(* Routing after the first unknown option.                                 *)
(***************************************************************************)
\* the token parser classifies a token other than -- after an unknown option
AfterUnknownOption ==
  /\ pc = "parseOptions" /\ frame.args # <<>> /\ Head(frame.args) # DashDash
  /\ frame.dest = "unknown"

\* the token is an option of the command, as a flag, as the head of a
\* cluster of short flags or as a long flag with a value
Recognised(c, arg) ==
  \/ maybeOption(arg) /\ findOption(c, arg) # 0
  \/ Len(arg) > 2 /\ arg[1] = "-" /\ arg[2] # "-" /\ findOption(c, <<"-", arg[2]>>) # 0
  \/ /\ isLongWithValue(arg)
     /\ LET i == findOption(c, SubSeq(arg, 1, IndexOf(arg, "=") - 1))
        IN i # 0 /\ (options(c)[i].required \/ options(c)[i].optional)

\* C31 as stated: once a token was classified as an unknown option, every
\* later token up to a -- goes to unknown: none is consumed as an option of
\* the command and none is appended to operands.
C31_AsStated ==
  [][AfterUnknownOption =>
       /\ frame'.unknown \o frame'.args = frame.unknown \o frame.args
       /\ frame'.operands = frame.operands
       /\ store' = store]_vars

\* C31 amended: once a token was classified as an unknown option, no later
\* token is appended to operands; a later token that is an option of the
\* command is still consumed as that option, with the argument it takes, and
\* every other token up to a -- goes to unknown.
C31_UnknownRouting ==
  [][AfterUnknownOption =>
       /\ frame'.operands = frame.operands
       /\ IF Recognised(cur, Head(frame.args))
            THEN frame'.unknown = frame.unknown
            ELSE /\ frame'.unknown \o frame'.args = frame.unknown \o frame.args
                 /\ Len(frame'.args) < Len(frame.args)
                 /\ store' = store]_vars

\* -u -p x was parsed: after the unknown -u, -p took x as the value of port
\* and nothing but -u went to unknown
C31_Witness ==
  /\ pc = "dispatch" /\ rawArgs = <<TokU, TokP, TokX>>
  /\ frame.unknown = <<TokU>> /\ frame.operands = <<>>
  /\ getOptionValue(store["prog"], KeyPort) = VStr(TokX)
  /\ getOptionValueSource(store["prog"], KeyPort) = "cli"

(***************************************************************************)
(* Clusters of short flags: pack.                                          *)
(***************************************************************************)
\* command lines over x and the clusters -ab, -rab, -oab and -au: -a and -b
\* are boolean, -r takes a required and -o an optional argument, -u is not
\* declared
ClusterAB == <<"-", "a", "b">>
ClusterRAB == <<"-", "r", "a", "b">>
ClusterOAB == <<"-", "o", "a", "b">>
ClusterAU == <<"-", "a", "u">>
ClusterAlphabet == {ClusterAB, ClusterRAB, ClusterOAB, ClusterAU, TokX}

NextCluster ==
  \/ \E combine \in BOOLEAN : CombineFlagAndOptionalValue("pack", combine)
  \/ pc = "setup" /\ \E argv \in SeqsUpTo(ClusterAlphabet, MaxArgv) : ParseRoot("pack", argv)
  \/ ParseOptionsStep
  \/ ParseOptionsEnv
  \/ ParseOptionsImplied
  \/ SetArgs

SpecCluster == InitHooks /\ [][NextCluster]_vars

\* the token parser classifies a token -Xrest of more than two characters
\* that is no flag itself and whose -X is declared
ClusterMet ==
  /\ pc = "parseOptions" /\ frame.args # <<>>
  /\ LET arg == Head(frame.args)
     IN /\ Len(arg) > 2 /\ arg[1] = "-" /\ arg[2] # "-"
        /\ findOption(cur, arg) = 0
        /\ findOption(cur, <<"-", arg[2]>>) # 0

\* C32: for a cluster -Xrest with -X declared, if -X takes a required
\* argument, or an optional one while combineFlagAndOptionalValue is on, the
\* option gets rest as its value from the command line and the next token
\* to classify is the one after the cluster; otherwise the option is set as
\* given without value and the next token to classify is -rest.
C32_Cluster ==
  [][ClusterMet =>
       LET arg == Head(frame.args)
           o == options(cur)[findOption(cur, <<"-", arg[2]>>)]
           key == attributeName(o)
       IN /\ getOptionValueSource(store'[cur], key) = "cli"
          /\ \A k \in DOMAIN store'[cur].values \ {key} :
               k \in DOMAIN store[cur].values /\ store'[cur].values[k] = store[cur].values[k]
          /\ IF o.required \/ (o.optional /\ settings[cur].combineFlagAndOptionalValue)
               THEN /\ getOptionValue(store'[cur], key) = VStr(Slice(arg, 2))
                    /\ frame'.args = Tail(frame.args)
               ELSE /\ getOptionValue(store'[cur], key) = VBool(TRUE)
                    /\ frame'.args = << <<"-">> \o Slice(arg, 2) >> \o Tail(frame.args)]_vars

\* -oab was parsed with combineFlagAndOptionalValue off: -o, -a and -b were
\* applied in turn, -b through its parser
C32_Witness ==
  /\ pc = "dispatch" /\ cur = "pack" /\ rawArgs = <<ClusterOAB>>
  /\ ~settings["pack"].combineFlagAndOptionalValue
  /\ getOptionValue(store["pack"], KeyOut) = VBool(TRUE)
  /\ getOptionValue(store["pack"], KeyAll) = VBool(TRUE)
  /\ getOptionValue(store["pack"], KeyBrief) = VList(<<Undefined>>)
  /\ frame.operands = <<>> /\ frame.unknown = <<>>

(***************************************************************************)
(* Exact matches of a flag and the token after it: pack.                   *)
(***************************************************************************)
\* command lines over -r (required argument), -o (optional argument),
\* -a (boolean), --no-wrap (negated), x and --
ExactAlphabet == {TokR, TokO, TokA, TokNoWrap, TokX, DashDash}

NextExact ==
  \/ pc = "setup" /\ \E argv \in SeqsUpTo(ExactAlphabet, MaxArgv) : ParseRoot("pack", argv)
  \/ ParseOptionsStep
  \/ ParseOptionsEnv
  \/ ParseOptionsImplied
  \/ SetArgs

SpecExact == InitHooks /\ [][NextExact]_vars

\* the token parser classifies a token that is a flag of option o
ExactMet(o) ==
  /\ pc = "parseOptions" /\ frame.args # <<>>
  /\ Head(frame.args) # DashDash
  /\ is(o, Head(frame.args))

\* the option event of o carries the value val, the tokens left are args
EventThen(o, val, args) ==
  /\ store'[cur] = handleOptionValue(store[cur], o, val, "cli")
  /\ frame'.args = args
  /\ pc' = "parseOptions"

\* C33: on an exact match of a flag, an option with a required argument
\* takes the next token as its value, whatever it looks like, and the error
\* commander.optionMissingArgument is raised when there is none; an option
\* with an optional argument takes the next token if there is one that does
\* not look like an option, and has the value null otherwise; a boolean or
\* negated option takes no token.
C33_ExactMatch ==
  [][\A o \in Elements(options("pack")) : ExactMet(o) =>
       LET rest == Tail(frame.args)
       IN IF o.required
            THEN IF rest = <<>>
                   THEN exit' = <<1, "commander.optionMissingArgument">> /\ store' = store
                   ELSE EventThen(o, VStr(Head(rest)), Tail(rest))
          ELSE IF o.optional
            THEN IF rest # <<>> /\ ~(Len(Head(rest)) > 1 /\ Head(rest)[1] = "-")
                   THEN EventThen(o, VStr(Head(rest)), Tail(rest))
                   ELSE EventThen(o, Null, rest)
          ELSE EventThen(o, Undefined, rest)]_vars

\* -r -a -o was parsed: -r took -a as its value, -o took none and is true,
\* and -a was not applied
C33_Witness ==
  /\ pc = "dispatch" /\ cur = "pack" /\ rawArgs = <<TokR, TokA, TokO>>
  /\ getOptionValue(store["pack"], KeyReq) = VStr(TokA)
  /\ getOptionValue(store["pack"], KeyOut) = VBool(TRUE)
  /\ KeyAll \notin DOMAIN store["pack"].values
  /\ frame.operands = <<>> /\ frame.unknown = <<>>

(***************************************************************************)
(* Positional options: where the parser stops at a subcommand, at the help *)
(* command and with a default command.  pack has the subcommand unit,      *)
(* which is its default command, and the implicit help command.            *)
(***************************************************************************)
\* command lines over unit, help, x, -a and -u, with positional options and
\* pass-through turned on or off
PositionalAlphabet == {TokUnit, TokHelpCmd, TokX, TokA, TokU}

NextPositional ==
  \/ \E b \in BOOLEAN : EnablePositionalOptions("pack", b)
  \/ \E b \in BOOLEAN : PassThroughOptions("pack", b)
  \/ pc = "setup" /\ \E argv \in SeqsUpTo(PositionalAlphabet, MaxArgv) : ParseRoot("pack", argv)
  \/ ParseOptionsStep
  \/ ParseOptionsEnv
  \/ ParseOptionsImplied
  \/ SetArgs

SpecPositional == InitHooks /\ [][NextPositional]_vars

\* with positional options or pass-through on and nothing in operands or
\* unknown yet, the token parser classifies a token that is no option of the
\* command
FirstUnrecognised ==
  /\ pc = "parseOptions" /\ frame.args # <<>> /\ Head(frame.args) # DashDash
  /\ settings[cur].enablePositionalOptions \/ settings[cur].passThroughOptions
  /\ frame.operands = <<>> /\ frame.unknown = <<>>
  /\ ~Recognised(cur, Head(frame.args))

\* the token is the name of the help command of the current command
IsHelpCommand(arg) == hasHelpCommand(cur) /\ arg = TokHelpCmd

\* the parser stops with these operands and unknown tokens
StopsWith(ops, unk) ==
  /\ frame'.operands = ops /\ frame'.unknown = unk /\ frame'.args = <<>>
  /\ pc' = "env"

\* C34 as stated: in that situation, when the token is a known subcommand
\* name or the name of the help command, or a default command is set, the
\* token and all remaining tokens are pushed to operands and the parser
\* stops.
C34_AsStated ==
  [][FirstUnrecognised
       /\ (findCommand(cur, Head(frame.args)) # NoCommand
             \/ IsHelpCommand(Head(frame.args))
             \/ defaultCommandName(cur) # NoCommand)
       => StopsWith(frame.args, <<>>)]_vars

\* C34 amended: in that situation the parser stops; at a known subcommand
\* name the token goes to operands and the remaining tokens go to unknown;
\* at the name of the help command the token and the remaining tokens go to
\* operands; otherwise, when a default command is set, the token and the
\* remaining tokens go to unknown.
C34_StopAtSubcommand ==
  [][FirstUnrecognised =>
       LET arg == Head(frame.args)
           rest == Tail(frame.args)
       IN IF findCommand(cur, arg) # NoCommand THEN StopsWith(<<arg>>, rest)
          ELSE IF IsHelpCommand(arg) THEN StopsWith(frame.args, <<>>)
          ELSE defaultCommandName(cur) # NoCommand => StopsWith(<<>>, frame.args)]_vars

\* unit -a x was parsed with positional options on: unit is the only
\* operand, -a was not applied and went to unknown with x
C34_Witness ==
  /\ pc = "dispatch" /\ cur = "pack" /\ rawArgs = <<TokUnit, TokA, TokX>>
  /\ settings["pack"].enablePositionalOptions
  /\ frame.operands = <<TokUnit>> /\ frame.unknown = <<TokA, TokX>>
  /\ KeyAll \notin DOMAIN store["pack"].values

(***************************************************************************)
(* Option events without value: presets and parsers.  pack.                *)
(***************************************************************************)
\* command lines over -a (boolean), -b (boolean with a parser), -g (boolean
\* with preset "fast" and a parser), -t (optional argument, preset "off"),
\* -o (optional argument) and --no-wrap, with ALL in the environment or not
PresetAlphabet == {TokA, TokB, TokG, TokT, TokO, TokNoWrap}

InitPreset ==
  /\ InitProgram
  /\ env \in {NoEnv, [x \in {"ALL"} |-> Str1]}
  /\ settings = [c \in Commands |-> DefaultSettings]

NextPreset ==
  \/ pc = "setup" /\ \E argv \in SeqsUpTo(PresetAlphabet, MaxArgv) : ParseRoot("pack", argv)
  \/ ParseOptionsStep
  \/ ParseOptionsEnv
  \/ ParseOptionsImplied
  \/ SetArgs

SpecPreset == InitPreset /\ [][NextPreset]_vars

\* an option event of o without value: the token parser classifies a flag
\* of o, which takes no argument or finds none to take
NoValueFromCli(o) ==
  /\ pc = "parseOptions" /\ frame.args # <<>> /\ is(o, Head(frame.args))
  /\ stepExact(o, Tail(frame.args)).val \in {Null, Undefined}
  /\ ~stepExact(o, Tail(frame.args)).missing

\* an option event of o without value in the environment pass: o is a
\* boolean or negated option whose variable is set and may overwrite
NoValueFromEnv(o) ==
  /\ pc = "env"
  /\ o.envVar \in DOMAIN env /\ ~o.required /\ ~o.optional
  /\ envMayOverwrite(store[cur], attributeName(o))

\* the value stored for an event without value when no parser is called
FillIn(o) == IF o.negate THEN VBool(FALSE) ELSE VBool(TRUE)

\* the attribute of o gets the value with the source
Stored(o, value, source) ==
  /\ getOptionValue(store'[cur], attributeName(o)) = value
  /\ getOptionValueSource(store'[cur], attributeName(o)) = source

\* C35 as stated: for an option event without value, a defined preset is
\* the raw value, passed through the parser if the option has one; without
\* preset the parser is not called and the value is true for a boolean
\* option, false for a negated option and true for an option with an
\* optional argument; the source is that of the event.
C35_AsStated ==
  [][\A o \in Elements(options("pack")) : \A source \in {"cli", "env"} :
       (IF source = "cli" THEN NoValueFromCli(o) ELSE NoValueFromEnv(o)) =>
         IF o.presetArg # Undefined
           THEN Stored(o, IF o.hasParseArg THEN parseArg(o.presetArg, Undefined)
                          ELSE o.presetArg, source)
           ELSE Stored(o, FillIn(o), source)]_vars

\* C35 amended: without preset the parser is skipped only when the event
\* carries null, which is the case of an option with an optional argument;
\* a boolean or negated option that has a parser gets what the parser
\* returns for undefined.
C35_NoValue ==
  [][\A o \in Elements(options("pack")) : \A source \in {"cli", "env"} :
       (IF source = "cli" THEN NoValueFromCli(o) ELSE NoValueFromEnv(o)) =>
         IF o.presetArg # Undefined
           THEN Stored(o, IF o.hasParseArg THEN parseArg(o.presetArg, Undefined)
                          ELSE o.presetArg, source)
         ELSE IF o.hasParseArg /\ ~o.optional
           THEN Stored(o, parseArg(Undefined, Undefined), source)
           ELSE Stored(o, FillIn(o), source)]_vars

\* -b -g -t was parsed: brief holds what its parser made of undefined, go
\* what its parser made of the preset, and tag its preset
C35_Witness ==
  /\ pc = "dispatch" /\ cur = "pack" /\ rawArgs = <<TokB, TokG, TokT>>
  /\ store["pack"].values[KeyBrief] = VList(<<Undefined>>)
  /\ store["pack"].values[KeyGo] = VList(<<VStr(StrFast)>>)
  /\ store["pack"].values[KeyTag] = VStr(StrOff)
  /\ \A key \in {KeyBrief, KeyGo, KeyTag} : store["pack"].sources[key] = "cli"

(***************************************************************************)
(* Where the operands and the unknown tokens come from.                    *)
(***************************************************************************)
\* tok is what is left of the cluster src after some of its leading flags
\* were taken off: -rest for a proper, non-empty tail rest of its flags
RemainderOf(tok, src) ==
  /\ Len(src) > 2 /\ src[1] = "-" /\ src[2] # "-"
  /\ \E k \in 2..(Len(src) - 1) : tok = <<"-">> \o Slice(src, k)

\* list can be laid on argv from position i on, in order, each element on a
\* token of its own that it is equal to or, with remainders, a remainder of
RECURSIVE LaidOn(_, _, _, _)
LaidOn(list, argv, i, remainders) ==
  IF list = <<>> THEN TRUE
  ELSE IF i > Len(argv) THEN FALSE
  ELSE IF Head(list) = argv[i] \/ (remainders /\ RemainderOf(Head(list), argv[i]))
    THEN LaidOn(Tail(list), argv, i + 1, remainders)
    ELSE LaidOn(list, argv, i + 1, remainders)

\* the token parser of the root command has returned
TokensParsed == pc \in {"env", "implied", "args", "dispatch"}

\* C36 as stated: the operands and the unknown tokens the token parser
\* returns are each tokens of argv, in the order of argv, none more often
\* than in argv.
C36_AsStated ==
  TokensParsed =>
    /\ LaidOn(frame.operands, rawArgs, 1, FALSE)
    /\ LaidOn(frame.unknown, rawArgs, 1, FALSE)

\* C36 amended: the operands are tokens of argv, in order, none more often
\* than in argv; an unknown token is a token of argv or the remainder -rest
\* of a cluster of argv whose leading flags were declared and applied, each
\* from a token of its own, in the order of argv.
C36_FromArgv ==
  TokensParsed =>
    /\ LaidOn(frame.operands, rawArgs, 1, FALSE)
    /\ LaidOn(frame.unknown, rawArgs, 1, TRUE)

\* x -au x was parsed: the first x is an operand, -a was applied and -u,
\* which is no token of the command line, is unknown before the second x
C36_Witness ==
  /\ pc = "dispatch" /\ cur = "pack" /\ rawArgs = <<TokX, ClusterAU, TokX>>
  /\ frame.operands = <<TokX>> /\ frame.unknown = <<TokU, TokX>>
  /\ getOptionValue(store["pack"], KeyAll) = VBool(TRUE)

(***************************************************************************)
(* The pending variadic option and the forms that carry a value.           *)
(***************************************************************************)
\* command lines over -n (variadic), -nx, --numbers=y, -v and x
ClusterNX == <<"-", "n", "x">>
LongNumbersY == TokNumbers \o <<"=", "y">>
PendingAlphabet == {TokN, ClusterNX, LongNumbersY, TokV, TokX}

NextPending ==
  \/ pc = "setup" /\ \E argv \in SeqsUpTo(PendingAlphabet, MaxArgv) : Parse(argv)
  \/ ParseOptionsStep
  \/ ParseOptionsEnv
  \/ ParseOptionsImplied
  \/ SetArgs

SpecPending == InitHooks /\ [][NextPending]_vars

\* the token parser classifies a variadic option given with its value in
\* one token
ValueFormMet ==
  /\ pc = "parseOptions" /\ frame.args # <<>>
  /\ Head(frame.args) \in {ClusterNX, LongNumbersY}

\* C37 as stated: a variadic option becomes pending only by an exact match
\* of its flag; when it is given as -Xvalue or --long=value the parser
\* stores the value, leaves no option pending and goes on with the next
\* token, so that the tokens that follow are routed as operands.
C37_AsStated ==
  [][/\ (pc = "parseOptions" /\ frame'.activeVariadicOption # 0
           /\ frame'.activeVariadicOption # frame.activeVariadicOption)
          => /\ frame.args # <<>>
             /\ is(options(cur)[frame'.activeVariadicOption], Head(frame.args))
     /\ ValueFormMet =>
          /\ frame'.activeVariadicOption = 0
          /\ frame'.args = Tail(frame.args)
          /\ IsList(getOptionValue(store'[cur], KeyNumbers))
          /\ pc' = "parseOptions"]_vars

(***************************************************************************)
(* The order of the passes of one parse.                                   *)
(***************************************************************************)
\* every attribute of the current command that this step writes, or whose
\* value or source it changes, has the source src afterwards
WritesOnly(src) ==
  \A key \in DOMAIN store'[cur].sources :
    (key \notin DOMAIN store[cur].sources
       \/ store'[cur].sources[key] # store[cur].sources[key]
       \/ store'[cur].values[key] # store[cur].values[key])
      => store'[cur].sources[key] = src

\* the attributes of the current command whose value came from the command
\* line keep value and source in this step
CliKept ==
  \A key \in DOMAIN store[cur].sources :
    store[cur].sources[key] = "cli" =>
      /\ store'[cur].sources[key] = "cli"
      /\ store'[cur].values[key] = store[cur].values[key]

\* the checks of the leaf: they raise one of these errors
ValidationErrors ==
  {"commander.missingMandatoryOptionValue", "commander.conflictingOption",
   "commander.unknownOption", "commander.excessArguments",
   "commander.missingArgument"}

\* C38: within the parse of a command the option events of the command line
\* come first, then the environment pass, then the implied pass, then the
\* checks: the token parser stores values with source cli only; the
\* environment pass follows it, stores values with source env only and
\* leaves every value from the command line alone; the implied pass follows
\* that, stores values with source implied only, and applies what --verbose
\* implies when verbose got its value from the environment; the checks run
\* after the implied pass and nothing stores a value after it.
C38_PassOrder ==
  [][/\ pc = "parseOptions" =>
          pc' \in {"parseOptions", "env", "exited", "idle"} /\ WritesOnly("cli")
     /\ pc = "env" => pc' = "implied" /\ WritesOnly("env") /\ CliKept
     /\ pc = "implied" =>
          /\ pc' = "args" /\ WritesOnly("implied") /\ CliKept
          /\ (getOptionValueSource(store[cur], KeyVerbose) = "env"
                /\ getOptionValueSource(store[cur], KeyPort) = "default")
               => /\ getOptionValue(store'[cur], KeyPort) = VStr(Str1)
                  /\ getOptionValueSource(store'[cur], KeyPort) = "implied"
     /\ pc \notin {"setup", "idle", "parseOptions", "env", "implied"} => store' = store
     /\ (exit' # exit /\ exit' # <<>> /\ exit'[2] \in ValidationErrors) => pc = "dispatch"]_vars

\* solo parsed x with VERBOSE in the environment: verbose came from the
\* environment, port was implied in the same parse, and the checks passed
C38_Witness ==
  /\ cur = "solo" /\ rawArgs = <<TokX>> /\ DOMAIN env = {"VERBOSE"}
  /\ processedArgs["solo"] # <<>>
  /\ getOptionValueSource(store["solo"], KeyVerbose) = "env"
  /\ getOptionValue(store["solo"], KeyPort) = VStr(Str1)
  /\ getOptionValueSource(store["solo"], KeyPort) = "implied"

(***************************************************************************)
(* One command parsed twice: solo.                                         *)
(***************************************************************************)
\* solo parses a command line over -p, -v, -n and x, with PORT and VERBOSE
\* in the environment or not, with a preAction and a postAction hook or
\* without, and with exitOverride() or without; when that parse has returned
\* or thrown, the client copies the option values, their sources and the
\* processed args, and solo parses the same command line again
ReparseAlphabet == {TokP, TokV, TokN, TokX}

\* parse(argv, { from: "user" }) called on solo a second time with the argv
\* of the first call, after the client copied what the first parse left
ParseAgain ==
  /\ ParseEnded("solo") /\ pc = "idle" /\ saved = <<>>
  /\ saved' = [values |-> store["solo"].values, sources |-> store["solo"].sources,
               processedArgs |-> processedArgs["solo"]]
  /\ operands' = <<>>
  /\ unknown' = rawArgs
  /\ frame' = NewFrame(rawArgs)
  /\ pc' = "parseOptions"
  /\ todo' = <<>>
  /\ promiseChain' = "undefined"
  /\ inThen' = FALSE
  /\ result' = "pending"
  /\ rejected' = FALSE
  /\ exit' = <<>>
  /\ UNCHANGED <<env, settings, execArgv, spawnArgs, draft, lifeCycleHooks, store,
                 rawArgs, cur, cmdArgs, processedArgs, chained, running, awaited,
                 log, actionCalls, handleReturned>>

NextReparse ==
  \/ \E e \in {"preAction", "postAction"} : lifeCycleHooks["solo"][e] = Null /\ Hook("solo", e)
  \/ ExitOverride("solo", "throws")
  \/ pc = "setup" /\ \E argv \in SeqsUpTo(ReparseAlphabet, MaxArgv) : ParseRoot("solo", argv)
  \/ ParseAgain
  \/ ParseOptionsStep
  \/ ParseOptionsEnv
  \/ ParseOptionsImplied
  \/ SetArgs
  \/ ProcessLeaf
  \/ CollectHooks
  \/ ChainOrCall
  \/ Return
  \/ \E s \in running : Complete(s)
  \/ RunChained

SpecReparse == InitResolve /\ [][NextReparse]_vars

C39_VariadicTwice ==
  /\ saved # <<>> /\ ParseEnded("solo") /\ result = "threw"
  /\ rawArgs = <<TokN, TokX>>
  /\ getOptionValue(store["solo"], KeyNumbers) = Undefined

(***************************************************************************)
(* What a throwing call leaves behind.                                     *)
(***************************************************************************)
\* passThroughOptions(true) on a subcommand threw: its flag is off
FlagOffAfterThrow ==
  (draft.threw /\ draft.last.op = "passThroughOptions" /\ draft.last.index > 0) =>
    ~draft.commands[draft.last.index].passThroughOptions

\* addCommand threw: the command it was given is still a command of its own
\* and not a subcommand of the program
RejectedNotAdded ==
  (draft.threw /\ draft.last.op = "addCommand") => draft.loose.made

\* a subcommand with passThroughOptions on has a parent with positional
\* options on
PassThroughHasPositionalParent ==
  \A i \in 1..Len(draft.commands) :
    draft.commands[i].passThroughOptions => draft.enablePositionalOptions

\* C40: a call of passThroughOptions or addCommand that throws leaves the
\* commands as they were before the call: the flag of the subcommand is
\* still off and the rejected command was not added; so a subcommand that
\* has passThroughOptions on has a parent with positional options on.
C40_AsStated ==
  /\ FlagOffAfterThrow
  /\ RejectedNotAdded
  /\ PassThroughHasPositionalParent

====
